---------------------------- MODULE Spec2Model ----------------------------
(***************************************************************************)
(* A model of abi_stable's type-erased handle DynTrait<'borr,P,I>          *)
(* (abi_stable/src/erased_types/dyn_trait.rs): construction, reborrowing,  *)
(* cloning, unerasing (downcasting), identity checks and destruction.      *)
(*                                                                         *)
(* A handle is a pointer `object` to a payload plus a dispatch-table       *)
(* pointer `vtable` whose low four bits are flag bits.  Dispatch tables    *)
(* are static data, one per (module, concrete type, construction kind,     *)
(* erased pointer type, interface); they are represented by their address. *)
(***************************************************************************)
EXTENDS Integers, Sequences, FiniteSets

(***************************************************************************)
(* Bounds of the model.                                                    *)
(***************************************************************************)
MaxHandles == 2
MaxPayloads == 2
\* the largest number of fields of a prefix type
MaxFields == 3
\* the largest number of variants of an enum whose layout is compared
MaxVariants == 3
\* the largest size of an enum and of the storage for it
MaxSize == 3
\* the largest alignment of an enum and of the storage for it, as a power of two
MaxAlignPow2 == 2
\* the largest number of writes through an RCow
MaxWrites == 2
MaxNamesLen == 3

(***************************************************************************)
(* Pointer-tagging constants.                                              *)
(***************************************************************************)
PTR_FLAGS == 15
PTR_FLAG_IS_BORROWED == 1

\* `x & PTR_MASK`, where PTR_MASK = !PTR_FLAGS
PTR_MASK(x) == x - (x % (PTR_FLAGS + 1))

\* `x & PTR_FLAGS`
AndPtrFlags(x) == x % (PTR_FLAGS + 1)

\* `x | PTR_FLAG_IS_BORROWED`
OrIsBorrowed(x) == IF x % 2 = 1 THEN x ELSE x + PTR_FLAG_IS_BORROWED

(***************************************************************************)
(* The universe the inputs are drawn from.                                 *)
(***************************************************************************)
\* dynamic libraries / executables
Modules == {"lib0", "lib1"}
\* concrete types that get erased
Types == {"T", "U"}
\* which GetVtable implementor a constructor/unerase method names:
\*   "impl"      T                       (from_value, from_ptr, *_unerased)
\*   "any"       InterfaceFor<T,I,True>  (from_any_*, *_any_unerased)
\*   "borrowing" InterfaceFor<T,I,False> (from_borrowing_*)
Kinds == {"impl", "any", "borrowing"}
\* erased pointer types P: an owning Send+Sync box, an owning pointer that
\* is neither Send nor Sync, and the two reference types of reborrows
Ptrs == {"RBox", "LocalPtr", "Ref", "RefMut"}
\* interfaces I, by their Send and Sync associated types
Interfaces == {"ISendSync", "ISend", "ISync", "INone"}
\* the lifetime 'borr of a handle
Lifetimes == {"static", "short"}

I_Send(i) == i \in {"ISendSync", "ISend"}
I_Sync(i) == i \in {"ISendSync", "ISync"}

P_Send(p) == p # "LocalPtr"
P_Sync(p) == p # "LocalPtr"
P_DerefMut(p) == p # "Ref"
P_Copy(p) == p = "Ref"
\* whether dropping a pointer of this type destroys the pointee
P_Owning(p) == p \in {"RBox", "LocalPtr"}

\* <T as ImplType>::Interface
ImplInterface(t) == IF t = "T" THEN "ISendSync" ELSE "INone"

(***************************************************************************)
(* Dispatch tables.                                                        *)
(***************************************************************************)
TableKeys == [module : Modules, ty : Types, kind : Kinds, P : Ptrs, I : Interfaces]

ModIdx(m) == IF m = "lib0" THEN 0 ELSE 1
TyIdx(t) == IF t = "T" THEN 0 ELSE 1
KindIdx(k) == CASE k = "impl" -> 0 [] k = "any" -> 1 [] OTHER -> 2
PIdx(p) == CASE p = "RBox" -> 0 [] p = "LocalPtr" -> 1 [] p = "Ref" -> 2 [] OTHER -> 3
IIdx(i) == CASE i = "ISendSync" -> 0 [] i = "ISend" -> 1 [] i = "INone" -> 2 [] OTHER -> 3

\* The address of the static holding a table: distinct statics have distinct
\* addresses, all with the flag bits clear.
VTableAddr(k) ==
    (PTR_FLAGS + 1) *
        (1 + ModIdx(k.module) + 2 * (TyIdx(k.ty) + 2 * (KindIdx(k.kind)
               + 3 * (PIdx(k.P) + 4 * IIdx(k.I)))))

\* A::get_vtable(), as an address
get_vtable(m, t, kind, p, i) ==
    VTableAddr([module |-> m, ty |-> t, kind |-> kind, P |-> p, I |-> i])

KindAt(n) == CASE n = 0 -> "impl" [] n = 1 -> "any" [] OTHER -> "borrowing"
PAt(n) == CASE n = 0 -> "RBox" [] n = 1 -> "LocalPtr" [] n = 2 -> "Ref" [] OTHER -> "RefMut"
IAt(n) == CASE n = 0 -> "ISendSync" [] n = 1 -> "ISend" [] n = 2 -> "INone" [] OTHER -> "ISync"

\* what a read through a pointer that is not the address of a table finds
WildTable == [module |-> "?", ty |-> "?", kind |-> "?", P |-> "?", I |-> "?"]

\* dereferencing a table address
VTableAt(addr) ==
    LET n == (addr \div (PTR_FLAGS + 1)) - 1
    IN  IF addr % (PTR_FLAGS + 1) = 0 /\ addr >= PTR_FLAGS + 1 /\ n < 192
        THEN [module |-> IF n % 2 = 0 THEN "lib0" ELSE "lib1",
              ty |-> IF (n \div 2) % 2 = 0 THEN "T" ELSE "U",
              kind |-> KindAt((n \div 4) % 3),
              P |-> PAt((n \div 12) % 4),
              I |-> IAt(n \div 48)]
        ELSE WildTable

\* the identity token stored in a table; has_uid is FALSE for tables of
\* InterfaceFor<T,I,False>, which carry no comparable type id
TypeInfoOf(k) == [name |-> k.ty, module |-> k.module, has_uid |-> k.kind # "borrowing"]

\* TypeInfo::is_compatible
is_compatible(a, b) ==
    a.has_uid /\ b.has_uid /\ a.name = b.name /\ a.module = b.module

(***************************************************************************)
(* State.                                                                  *)
(***************************************************************************)
VARIABLES
    handles,    \* every DynTrait created so far, in creation order
    payloads,   \* every erased value created so far
    typed,      \* the pointers returned by successful into_*unerased calls
    last,       \* what the most recent operation returned
    enum_vtable, \* the dispatch table of a NonExhaustive<E,S,I> and the last read of it
    prefix,     \* a prefix-type static, the PrefixRef to it and what its accessors returned
    abi_check,  \* two layouts of an enum and the result of comparing them
    storage_check, \* a nonexhaustive enum, the layout of a storage and the result of checking it
    tl_eq,      \* the statics of two modules, two layouts made of them and whether they are equal
    rcow,       \* a value, an RCow that borrowed it and what was read through the RCow
    names_iter  \* a GetVariantNames iterator and what it yielded

vars == <<handles, payloads, typed, last, enum_vtable, prefix, abi_check, storage_check,
          tl_eq, rcow, names_iter>>

\* the state of DynTrait
dyn_trait_vars == <<handles, payloads, typed, last>>
\* the state of the other components
other_vars == <<enum_vtable, prefix, abi_check, storage_check, tl_eq, rcow, names_iter>>
\* the state of the components other than DynTrait, the NonExhaustive vtable,
\* the prefix types and the comparison of enum layouts
more_vars == <<storage_check, tl_eq, rcow, names_iter>>
\* the state of those four
first_vars == <<handles, payloads, typed, last, enum_vtable, prefix, abi_check>>

\* Option<T>
None == [some |-> FALSE, v |-> ""]
Some(x) == [some |-> TRUE, v |-> x]

\* no field of a NonExhaustiveVtable has been read
NoEnumCall == [field |-> "", view |-> {}, outcome |-> "", value |-> ""]

\* no dispatch table of a non-exhaustive enum has been built
NoEnumVtable ==
    [built |-> FALSE, E |-> {}, I |-> {},
     val |-> [_sabi_drop |-> "", _sabi_clone |-> None, _sabi_debug |-> None,
              _sabi_display |-> None, _sabi_serialize |-> None,
              _sabi_partial_eq |-> None, _sabi_cmp |-> None,
              _sabi_partial_cmp |-> None, _sabi_hash |-> None],
     call |-> NoEnumCall]

NoError ==
    [expected_vtable_address |-> 0, expected_type_info |-> [name |-> "", module |-> "", has_uid |-> FALSE],
     found_vtable_address |-> 0, found_type_info |-> [name |-> "", module |-> "", has_uid |-> FALSE]]

\* the operation returned nothing the model keeps
NoCall ==
    [op |-> "none", h |-> 0, other |-> 0, self_vtable |-> 0, self_object |-> 0,
     module |-> "", ty |-> "", kind |-> "", P |-> "", I |-> "",
     ok |-> FALSE, err |-> NoError, out |-> 0, slot |-> ""]

HandleIds == 1..Len(handles)
PayloadIds == 1..Len(payloads)
TypedIds == 1..Len(typed)

Live(h) == h \in HandleIds /\ handles[h].state = "live"

\* borrows of handle h that are still alive ('re of reborrow/reborrow_mut)
LiveBorrows(h) ==
    {c \in HandleIds : handles[c].state = "live" /\ handles[c].src = h}
LiveTypedBorrows(h) ==
    {c \in TypedIds : typed[c].live /\ typed[c].src = h}
LiveMutBorrows(h) ==
    {c \in LiveBorrows(h) : handles[c].P = "RefMut"}
        \cup {c \in LiveTypedBorrows(h) : typed[c].P = "RefMut"}

\* The program is sequential: a call is made once the caller has taken what
\* the call before it returned.
Ready == last = NoCall

\* `&self` can be taken: no exclusive borrow of h is alive
CanBorrow(h) == Live(h) /\ LiveMutBorrows(h) = {}
\* `&mut self` or `self` can be taken: no borrow of h is alive
CanBorrowMut(h) == Live(h) /\ LiveBorrows(h) = {} /\ LiveTypedBorrows(h) = {}

(***************************************************************************)
(* Accessors of DynTrait.                                                  *)
(***************************************************************************)
\* vtable_address that leaves the flag bits in
vtable_address_unmasked(self) == self.vtable

vtable_address(self) == PTR_MASK(self.vtable)

vtable_ptr_flags(self) == AndPtrFlags(self.vtable)

\* the table the handle's pointer refers to
vtable(self) == VTableAt(PTR_MASK(self.vtable))

\* vtable().type_info()
type_info(addr) == TypeInfoOf(VTableAt(addr))

\* A handle.  object, vtable are the fields of DynTrait; P, I and borr its type
\* parameters; src is the handle its 're borrow comes from (0: none).  The
\* rest is bookkeeping: made_by is the kind of the constructor at the origin of
\* the handle, erased the value that constructor was given, state is live, dropped (Drop::drop ran) or consumed (moved out
\* without Drop), drop_calls counts the calls of the drop_ptr slot made
\* through this handle.
NewHandle(object, vt, p, i, borr, src, made_by, erased) ==
    [object |-> object, vtable |-> vt, P |-> p, I |-> i, borr |-> borr,
     src |-> src, made_by |-> made_by, erased |-> erased,
     state |-> "live", drop_calls |-> 0]

\* the value v : t moved into a constructor called in module m; every value
\* handed to a constructor is a fresh token, so that values tell payloads apart
\* destroyed counts the runs of the value's destructor, slot_runs the runs of
\* a drop_ptr slot on it
NewPayload(m, t, v) ==
    [module |-> m, ty |-> t, value |-> v, destroyed |-> 0, slot_runs |-> 0]

FreshValue == Len(payloads) + 1

\* what the accessor of a field returned: nothing yet, absent, or a value
NotCalled == [called |-> FALSE, present |-> FALSE, v |-> 0]
Absent == [called |-> TRUE, present |-> FALSE, v |-> 0]
Present(x) == [called |-> TRUE, present |-> TRUE, v |-> x]

\* no prefix-type static has been built
NoPrefix ==
    [built |-> FALSE,
     layout |-> [first_suffix_field |-> 0, conditional_prefix_fields |-> 0,
                 fields |-> 0, accessible_fields |-> 0],
     metadata |-> [field_accessibility |-> 0],
     value |-> <<>>,
     view |-> 0,
     got |-> [i \in 0..(MaxFields - 1) |-> NotCalled],
     reads |-> {}]

\* the layout of an enum without variants
EmptyTLEnum ==
    [field_count |-> <<>>, discriminants |-> [repr |-> "U8", discriminants |-> <<>>]]

\* no layouts have been handed to the checker
NoAbiCheck ==
    [loaded |-> FALSE, this |-> EmptyTLEnum, other |-> EmptyTLEnum,
     called |-> "", result |-> [ok |-> FALSE, errs |-> <<>>],
     pair |-> <<EmptyTLEnum, EmptyTLEnum>>]

\* check_compatible has not been called
NoStorageCheck ==
    [called |-> FALSE,
     nonexhaustive |-> [original_size |-> 0, original_alignment_pow2 |-> 0],
     layout |-> [size |-> 0, alignment |-> 1],
     enum_variants |-> 0, storage_variants |-> 0,
     result |-> [ok |-> FALSE,
                 err |-> [type_size |-> 0, type_alignment |-> 0,
                          storage_size |-> 0, storage_alignment |-> 0]]]

\* a static without contents
EmptyStatic == [repr |-> "", elems |-> <<>>, names |-> <<>>]

\* no layouts have been compared with ==
NoTLEq ==
    [called |-> "",
     statics |-> <<EmptyStatic, EmptyStatic>>,
     this |-> [repr |-> "", len |-> 0, ptr |-> 0, shared_vars |-> 0],
     other |-> [repr |-> "", len |-> 0, ptr |-> 0, shared_vars |-> 0],
     result |-> FALSE]

\* no RCow exists
NoRCow ==
    [built |-> FALSE,
     orig |-> 0,                \* the value that was borrowed, as it was then
     data |-> 0,                \* the value that was borrowed, as it is now
     value |-> [variant |-> "Borrowed", owned |-> 0],   \* the RCow
     writes |-> <<>>,           \* the values written through to_mut
     read |-> [some |-> FALSE, v |-> 0, at |-> 0]]  \* the last read and the number of writes before it

\* no iterator exists
NoNamesIter ==
    [built |-> FALSE,
     names |-> <<>>,            \* the variant_names string of the enum
     split |-> [rest |-> <<>>, finished |-> TRUE],  \* the std::str::Split
     length |-> 0,
     current |-> 0,
     yielded |-> <<>>,          \* the items the calls of next returned
     last |-> "",               \* "Some", "None" or "panic": how the last call of next ended
     panicked |-> FALSE]

\* no handle exists
NoDynTrait ==
    /\ handles = <<>>
    /\ payloads = <<>>
    /\ typed = <<>>
    /\ last = NoCall

Init ==
    /\ NoDynTrait
    /\ enum_vtable = NoEnumVtable
    /\ prefix = NoPrefix
    /\ abi_check = NoAbiCheck
    /\ storage_check = NoStorageCheck
    /\ tl_eq = NoTLEq
    /\ rcow = NoRCow
    /\ names_iter = NoNamesIter

(***************************************************************************)
(* Constructors.                                                           *)
(***************************************************************************)
\* DynTrait::from_ptr, called in module m with a pointer of type p to a value of type t
from_ptr(m, t, p) ==
    /\ Ready
    /\ Len(handles) < MaxHandles
    /\ Len(payloads) < MaxPayloads
    /\ payloads' = Append(payloads, NewPayload(m, t, FreshValue))
    /\ handles' = Append(handles,
            NewHandle(Len(payloads) + 1, get_vtable(m, t, "impl", p, ImplInterface(t)),
                      p, ImplInterface(t), "static", 0, "impl", FreshValue))
    /\ last' = NoCall
    /\ UNCHANGED typed

\* DynTrait::from_value
from_value(m, t) == from_ptr(m, t, "RBox")

\* DynTrait::from_any_ptr
from_any_ptr(m, t, p, i) ==
    /\ Ready
    /\ Len(handles) < MaxHandles
    /\ Len(payloads) < MaxPayloads
    /\ payloads' = Append(payloads, NewPayload(m, t, FreshValue))
    /\ handles' = Append(handles,
            NewHandle(Len(payloads) + 1, get_vtable(m, t, "any", p, i), p, i, "static", 0, "any", FreshValue))
    /\ last' = NoCall
    /\ UNCHANGED typed

\* DynTrait::from_any_value
from_any_value(m, t, i) == from_any_ptr(m, t, "RBox", i)

\* from_borrowing_ptr with the table of InterfaceFor<T,I,True>
from_borrowing_ptr_unerasable(m, t, p, i, borr) ==
    /\ Ready
    /\ Len(handles) < MaxHandles
    /\ Len(payloads) < MaxPayloads
    /\ payloads' = Append(payloads, NewPayload(m, t, FreshValue))
    /\ handles' = Append(handles,
            NewHandle(Len(payloads) + 1, get_vtable(m, t, "any", p, i), p, i, borr, 0,
                      "borrowing", FreshValue))
    /\ last' = NoCall
    /\ UNCHANGED typed

\* DynTrait::from_borrowing_ptr; borr is the lifetime the erased type borrows for
from_borrowing_ptr(m, t, p, i, borr) ==
    /\ Ready
    /\ Len(handles) < MaxHandles
    /\ Len(payloads) < MaxPayloads
    /\ payloads' = Append(payloads, NewPayload(m, t, FreshValue))
    /\ handles' = Append(handles,
            NewHandle(Len(payloads) + 1, get_vtable(m, t, "borrowing", p, i), p, i, borr, 0,
                      "borrowing", FreshValue))
    /\ last' = NoCall
    /\ UNCHANGED typed

\* DynTrait::from_borrowing_value
from_borrowing_value(m, t, i, borr) == from_borrowing_ptr(m, t, "RBox", i, borr)

(***************************************************************************)
(* Reborrowing.                                                            *)
(***************************************************************************)
\* ReborrowBounds implemented for every pair of flags
ReborrowBounds_any_pair(send, sync) == send \in BOOLEAN /\ sync \in BOOLEAN

\* impl ReborrowBounds<False,False> / <True,True> for PrivStruct
ReborrowBounds(send, sync) == (send /\ sync) \/ (~send /\ ~sync)

\* reborrow that copies the vtable pointer as it is
reborrow_without_flag(h) ==
    /\ Ready
    /\ CanBorrow(h)
    /\ ReborrowBounds(I_Send(handles[h].I), I_Sync(handles[h].I))
    /\ Len(handles) < MaxHandles
    /\ handles' = Append(handles,
            NewHandle(handles[h].object, handles[h].vtable,
                      "Ref", handles[h].I, handles[h].borr, h, handles[h].made_by,
                      handles[h].erased))
    /\ last' = [NoCall EXCEPT !.op = "reborrow", !.h = h, !.out = Len(handles) + 1]
    /\ UNCHANGED <<payloads, typed>>

\* DynTrait::reborrow
reborrow(h) ==
    /\ Ready
    /\ CanBorrow(h)
    /\ ReborrowBounds(I_Send(handles[h].I), I_Sync(handles[h].I))
    /\ Len(handles) < MaxHandles
    /\ handles' = Append(handles,
            NewHandle(handles[h].object, OrIsBorrowed(handles[h].vtable),
                      "Ref", handles[h].I, handles[h].borr, h, handles[h].made_by,
                      handles[h].erased))
    /\ last' = [NoCall EXCEPT !.op = "reborrow", !.h = h, !.out = Len(handles) + 1]
    /\ UNCHANGED <<payloads, typed>>

\* DynTrait::reborrow_mut
reborrow_mut(h) ==
    /\ Ready
    /\ CanBorrowMut(h)
    /\ P_DerefMut(handles[h].P)
    /\ ReborrowBounds(I_Send(handles[h].I), I_Sync(handles[h].I))
    /\ Len(handles) < MaxHandles
    /\ handles' = Append(handles,
            NewHandle(handles[h].object, OrIsBorrowed(handles[h].vtable),
                      "RefMut", handles[h].I, handles[h].borr, h, handles[h].made_by,
                      handles[h].erased))
    /\ last' = [NoCall EXCEPT !.op = "reborrow_mut", !.h = h, !.out = Len(handles) + 1]
    /\ UNCHANGED <<payloads, typed>>

(***************************************************************************)
(* Destruction.                                                            *)
(***************************************************************************)
\* vtable.drop_ptr()(&mut *self.object): the slot of table k run on payload o
drop_ptr(ps, k, o) ==
    IF P_Owning(k.P)
    THEN [ps EXCEPT ![o].slot_runs = @ + 1, ![o].destroyed = @ + 1]
    ELSE [ps EXCEPT ![o].slot_runs = @ + 1]

\* drop without the test of PTR_FLAG_IS_BORROWED
drop_ignoring_flag(hs, ps, h) ==
    [handles |-> [hs EXCEPT ![h].state = "dropped", ![h].drop_calls = @ + 1],
     payloads |-> drop_ptr(ps, vtable(hs[h]), hs[h].object)]

\* <DynTrait as Drop>::drop on handle h; gives the handles and payloads after it
drop(hs, ps, h) ==
    IF (vtable_ptr_flags(hs[h]) % 2) = PTR_FLAG_IS_BORROWED
    THEN [handles |-> [hs EXCEPT ![h].state = "dropped"], payloads |-> ps]
    ELSE [handles |-> [hs EXCEPT ![h].state = "dropped", ![h].drop_calls = @ + 1],
          payloads |-> drop_ptr(ps, vtable(hs[h]), hs[h].object)]

\* the owner of handle h lets it go out of scope
Drop(h) ==
    /\ Ready
    /\ CanBorrowMut(h)
    /\ handles' = drop(handles, payloads, h).handles
    /\ payloads' = drop(handles, payloads, h).payloads
    /\ last' = [NoCall EXCEPT !.op = "drop", !.h = h]
    /\ UNCHANGED typed

(***************************************************************************)
(* Cloning.                                                                *)
(***************************************************************************)
\* from_new_ptr that takes the address of the table without the flag bits
from_new_ptr_without_flags(self, object, src) ==
    NewHandle(object, PTR_MASK(self.vtable), self.P, self.I, self.borr, src, self.made_by,
              self.erased)

\* DynTrait::from_new_ptr: a handle around `object` with the receiver's vtable
from_new_ptr(self, object, src) ==
    NewHandle(object, self.vtable, self.P, self.I, self.borr, src, self.made_by,
              self.erased)

\* <DynTrait as CloneImpl<PK_SmartPointer>>::clone_impl: the clone_ptr slot
\* allocates a copy of the payload
clone_impl_smart(h) ==
    /\ Ready
    /\ CanBorrow(h)
    /\ P_Owning(handles[h].P)
    /\ Len(handles) < MaxHandles
    /\ Len(payloads) < MaxPayloads
    /\ payloads' = Append(payloads,
            [payloads[handles[h].object] EXCEPT !.destroyed = 0, !.slot_runs = 0])
    /\ handles' = Append(handles, from_new_ptr(handles[h], Len(payloads) + 1, 0))
    /\ last' = [NoCall EXCEPT !.op = "clone", !.h = h, !.out = Len(handles) + 1]
    /\ UNCHANGED typed

\* <DynTrait as CloneImpl<PK_Reference>>::clone_impl: copies the reference;
\* made while fewer than cap handles have been created
clone_impl_ref_within(h, cap) ==
    /\ Ready
    /\ CanBorrow(h)
    /\ P_Copy(handles[h].P)
    /\ Len(handles) < cap
    /\ handles' = Append(handles, from_new_ptr(handles[h], handles[h].object, handles[h].src))
    /\ last' = [NoCall EXCEPT !.op = "clone", !.h = h, !.out = Len(handles) + 1]
    /\ UNCHANGED <<payloads, typed>>

clone_impl_ref(h) == clone_impl_ref_within(h, MaxHandles)

\* DynTrait::default: the default_ptr slot allocates a default value of the
\* erased type
default(h) ==
    /\ Ready
    /\ CanBorrow(h)
    /\ P_Owning(handles[h].P)
    /\ Len(handles) < MaxHandles
    /\ Len(payloads) < MaxPayloads
    /\ payloads' = Append(payloads,
            NewPayload(vtable(handles[h]).module, vtable(handles[h]).ty, FreshValue))
    /\ handles' = Append(handles, from_new_ptr(handles[h], Len(payloads) + 1, 0))
    /\ last' = [NoCall EXCEPT !.op = "default", !.h = h, !.out = Len(handles) + 1]
    /\ UNCHANGED typed

(***************************************************************************)
(* Identity checks and unerasing.                                          *)
(***************************************************************************)
\* the UneraseError built by check_same_destructor_opaque
CheckError(self, t_vtable) ==
    [expected_vtable_address |-> t_vtable,
     expected_type_info |-> type_info(t_vtable),
     found_vtable_address |-> self.vtable,
     found_type_info |-> TypeInfoOf(vtable(self))]

\* the check with the fast path alone
check_fast_path_only(self, t_vtable) ==
    IF vtable_address(self) = t_vtable
    THEN [ok |-> TRUE, err |-> NoError]
    ELSE [ok |-> FALSE, err |-> CheckError(self, t_vtable)]

\* the check with `&&` in the place of `||`
check_both_paths(self, t_vtable) ==
    IF /\ vtable_address(self) = t_vtable
       /\ is_compatible(TypeInfoOf(vtable(self)), type_info(t_vtable))
    THEN [ok |-> TRUE, err |-> NoError]
    ELSE [ok |-> FALSE, err |-> CheckError(self, t_vtable)]

\* the check that never fails
check_always_ok(self, t_vtable) == [ok |-> TRUE, err |-> NoError]

\* DynTrait::check_same_destructor_opaque::<A,T>, t_vtable = A::get_vtable()
check_same_destructor_opaque(self, t_vtable) ==
    IF \/ vtable_address(self) = t_vtable
       \/ is_compatible(TypeInfoOf(vtable(self)), type_info(t_vtable))
    THEN [ok |-> TRUE, err |-> NoError]
    ELSE [ok |-> FALSE, err |-> CheckError(self, t_vtable)]

\* the table an unerasing call for type t made in module m compares against
TargetVTable(kind, h, m, t) == get_vtable(m, t, kind, handles[h].P, handles[h].I)

\* what an unerasing call made in module m for type t leaves in `last`
CallRecord(op, kind, h, m, t, res) ==
    [op |-> op, h |-> h, other |-> 0,
     self_vtable |-> handles[h].vtable, self_object |-> handles[h].object,
     module |-> m, ty |-> t, kind |-> kind, P |-> handles[h].P, I |-> handles[h].I,
     ok |-> res.ok, err |-> res.err,
     out |-> IF res.ok THEN handles[h].object ELSE 0, slot |-> ""]

\* the body shared by as_unerased and as_any_unerased: Ok(self.object_as())
as_ref(op, kind, h, m, t) ==
    LET res == check_same_destructor_opaque(handles[h], TargetVTable(kind, h, m, t))
    IN  /\ last' = CallRecord(op, kind, h, m, t, res)
        /\ UNCHANGED <<handles, payloads, typed>>

\* into_*unerased that reads the pointer out of a handle it still drops
into_ptr_without_manually_drop(op, kind, h, m, t) ==
    LET res == check_same_destructor_opaque(handles[h], TargetVTable(kind, h, m, t))
    IN  /\ last' = CallRecord(op, kind, h, m, t, res)
        /\ handles' = drop(handles, payloads, h).handles
        /\ payloads' = drop(handles, payloads, h).payloads
        /\ typed' = IF res.ok
                     THEN Append(typed, [object |-> handles[h].object, P |-> handles[h].P,
                                         src |-> handles[h].src, live |-> TRUE])
                     ELSE typed

\* into_*unerased that forgets the handle before it checks the type
into_ptr_forgetting_on_error(op, kind, h, m, t) ==
    LET res == check_same_destructor_opaque(handles[h], TargetVTable(kind, h, m, t))
    IN  /\ last' = CallRecord(op, kind, h, m, t, res)
        /\ handles' = [handles EXCEPT ![h].state = "consumed"]
        /\ typed' = IF res.ok
                     THEN Append(typed, [object |-> handles[h].object, P |-> handles[h].P,
                                         src |-> handles[h].src, live |-> TRUE])
                     ELSE typed
        /\ UNCHANGED payloads

\* the body shared by into_unerased and into_any_unerased
into_ptr(op, kind, h, m, t) ==
    LET res == check_same_destructor_opaque(handles[h], TargetVTable(kind, h, m, t))
    IN  /\ last' = CallRecord(op, kind, h, m, t, res)
        /\ IF res.ok
           THEN \* ManuallyDrop::new(self); ptr::read(&*this.object)
                /\ handles' = [handles EXCEPT ![h].state = "consumed"]
                /\ typed' = Append(typed, [object |-> handles[h].object, P |-> handles[h].P,
                                           src |-> handles[h].src, live |-> TRUE])
                /\ UNCHANGED payloads
           ELSE \* `?` returns early and `self` is dropped
                /\ handles' = drop(handles, payloads, h).handles
                /\ payloads' = drop(handles, payloads, h).payloads
                /\ UNCHANGED typed

\* DynTrait::as_unerased::<T>, called in module m
as_unerased(h, m, t) ==
    /\ Ready
    /\ CanBorrow(h)
    /\ handles[h].I = ImplInterface(t)
    /\ as_ref("as_unerased", "impl", h, m, t)

\* DynTrait::as_unerased_mut::<T>
as_unerased_mut(h, m, t) ==
    /\ Ready
    /\ CanBorrowMut(h)
    /\ P_DerefMut(handles[h].P)
    /\ handles[h].I = ImplInterface(t)
    /\ as_ref("as_unerased_mut", "impl", h, m, t)

\* DynTrait::into_unerased::<T>
into_unerased(h, m, t) ==
    /\ Ready
    /\ CanBorrowMut(h)
    /\ handles[h].I = ImplInterface(t)
    /\ into_ptr("into_unerased", "impl", h, m, t)

\* DynTrait::as_any_unerased::<T>
as_any_unerased(h, m, t) ==
    /\ Ready
    /\ CanBorrow(h)
    /\ as_ref("as_any_unerased", "any", h, m, t)

\* DynTrait::as_any_unerased_mut::<T>
as_any_unerased_mut(h, m, t) ==
    /\ Ready
    /\ CanBorrowMut(h)
    /\ P_DerefMut(handles[h].P)
    /\ as_ref("as_any_unerased_mut", "any", h, m, t)

\* DynTrait::into_any_unerased::<T>
into_any_unerased(h, m, t) ==
    /\ Ready
    /\ CanBorrowMut(h)
    /\ into_ptr("into_any_unerased", "any", h, m, t)

\* DynTrait::is_same_type, only for DynTrait<'static,_,_>
is_same_type(h, o) ==
    /\ Ready
    /\ CanBorrow(h)
    /\ CanBorrow(o)
    /\ handles[h].borr = "static"
    /\ handles[o].borr = "static"
    /\ last' = [NoCall EXCEPT
                  !.op = "is_same_type", !.h = h, !.other = o,
                  !.ok = \/ vtable_address(handles[h]) = vtable_address(handles[o])
                         \/ is_compatible(TypeInfoOf(vtable(handles[h])),
                                          TypeInfoOf(vtable(handles[o])))]
    /\ UNCHANGED <<handles, payloads, typed>>

\* the pointer returned by into_*unerased goes out of scope
DropTyped(i) ==
    /\ Ready
    /\ i \in TypedIds
    /\ typed[i].live
    /\ typed' = [typed EXCEPT ![i].live = FALSE]
    /\ payloads' = IF P_Owning(typed[i].P)
                   THEN [payloads EXCEPT ![typed[i].object].destroyed = @ + 1]
                   ELSE payloads
    /\ last' = NoCall
    /\ UNCHANGED handles

(***************************************************************************)
(* Send and Sync.                                                          *)
(***************************************************************************)
\* Send derived from the interface alone
IsSend_interface_only(h) == I_Send(handles[h].I)

\* unsafe impl Send for DynTrait<'borr,P,I> where P: Send, I: InterfaceBound<Send = True>
IsSend(h) == P_Send(handles[h].P) /\ I_Send(handles[h].I)
\* unsafe impl Sync for DynTrait<'borr,P,I> where P: Sync, I: InterfaceBound<Sync = True>
IsSync(h) == P_Sync(handles[h].P) /\ I_Sync(handles[h].I)

\* A caller requires `DynTrait<'borr,P,I>: Send` (bound = "Send", as moving the
\* handle into a spawned thread does) or `: Sync` (sharing a reference to it)
\* of handle h; the compiler answers from the two impls.
require_bound(h, bound) ==
    /\ Ready
    /\ Live(h)
    /\ last' = [NoCall EXCEPT !.op = IF bound = "Send" THEN "require_send" ELSE "require_sync",
                              !.h = h,
                              !.ok = IF bound = "Send" THEN IsSend(h) ELSE IsSync(h)]
    /\ UNCHANGED <<handles, payloads, typed>>

\* the caller takes the value the last call returned
TakeResult ==
    /\ ~Ready
    /\ last' = NoCall
    /\ UNCHANGED <<handles, payloads, typed>>

(***************************************************************************)
(* Comparisons of DynTrait<'static,P,I>.  Ordering is -1 (Less), 0 (Equal) *)
(* or 1 (Greater); the slots of a table compare the erased values.         *)
(***************************************************************************)
\* <usize as Ord>::cmp, <T as Ord>::cmp of the erased values
Cmp(a, b) == IF a < b THEN -1 ELSE IF a = b THEN 0 ELSE 1

\* the value of is_same_type
SameType(self, other) ==
    \/ vtable_address(self) = vtable_address(other)
    \/ is_compatible(TypeInfoOf(vtable(self)), TypeInfoOf(vtable(other)))

\* the erased value behind a handle
ErasedValue(self) == payloads[self.object].value

\* an eq that calls the slot of the receiver's table whatever the other
\* handle holds
PartialEq_eq_unchecked(self, other) ==
    [ok |-> ErasedValue(self) = ErasedValue(other), out |-> 0, slot |-> "partial_eq"]

\* <DynTrait as PartialEq>::eq
PartialEq_eq(self, other) ==
    IF ~SameType(self, other)
    THEN [ok |-> FALSE, out |-> 0, slot |-> ""]
    ELSE [ok |-> ErasedValue(self) = ErasedValue(other), out |-> 0, slot |-> "partial_eq"]

\* <DynTrait as Ord>::cmp
Ord_cmp(self, other) ==
    IF ~SameType(self, other)
    THEN [ok |-> TRUE, out |-> Cmp(vtable_address(self), vtable_address(other)), slot |-> ""]
    ELSE [ok |-> TRUE, out |-> Cmp(ErasedValue(self), ErasedValue(other)), slot |-> "cmp"]

\* <DynTrait as PartialOrd>::partial_cmp; ok is whether it is Some
PartialOrd_partial_cmp(self, other) ==
    IF ~SameType(self, other)
    THEN [ok |-> TRUE, out |-> Cmp(vtable_address(self), vtable_address(other)), slot |-> ""]
    ELSE [ok |-> TRUE, out |-> Cmp(ErasedValue(self), ErasedValue(other)),
          slot |-> "partial_cmp"]

\* h == o, h.cmp(&o) or h.partial_cmp(&o) of two handles of one type
\* DynTrait<'static,P,I>
compare_handles(op, h, o) ==
    /\ Ready
    /\ CanBorrow(h)
    /\ CanBorrow(o)
    /\ handles[h].borr = "static"
    /\ handles[o].borr = "static"
    /\ handles[h].P = handles[o].P
    /\ handles[h].I = handles[o].I
    /\ LET res == CASE op = "eq" -> PartialEq_eq(handles[h], handles[o])
                    [] op = "cmp" -> Ord_cmp(handles[h], handles[o])
                    [] OTHER -> PartialOrd_partial_cmp(handles[h], handles[o])
       IN  last' = [NoCall EXCEPT !.op = op, !.h = h, !.other = o,
                                  !.ok = res.ok, !.out = res.out, !.slot = res.slot]
    /\ UNCHANGED <<handles, payloads, typed>>

Comparisons ==
    \E op \in {"eq", "cmp", "partial_cmp"}, h \in HandleIds, o \in HandleIds :
        compare_handles(op, h, o) /\ UNCHANGED other_vars

\* a caller requires a handle to be Send or to be Sync
RequireBounds ==
    \E h \in HandleIds, bound \in {"Send", "Sync"} : require_bound(h, bound) /\ UNCHANGED other_vars

\* the pointer types a constructor is handed
CtorPtrs == {"RBox", "LocalPtr", "Ref"}

\* The constructor calls made in the modules Ms for the types Ts, pointers Ps,
\* interfaces Is and lifetimes Bs.
Constructors(Ms, Ts, Ps, Is, Bs) ==
    \/ \E m \in Ms, t \in Ts : from_value(m, t) /\ UNCHANGED other_vars
    \/ \E m \in Ms, t \in Ts, p \in Ps : from_ptr(m, t, p) /\ UNCHANGED other_vars
    \/ \E m \in Ms, t \in Ts, i \in Is : from_any_value(m, t, i) /\ UNCHANGED other_vars
    \/ \E m \in Ms, t \in Ts, p \in Ps, i \in Is : from_any_ptr(m, t, p, i) /\ UNCHANGED other_vars
    \/ \E m \in Ms, t \in Ts, i \in Is, b \in Bs : from_borrowing_value(m, t, i, b) /\ UNCHANGED other_vars
    \/ \E m \in Ms, t \in Ts, p \in Ps, i \in Is, b \in Bs :
            from_borrowing_ptr(m, t, p, i, b) /\ UNCHANGED other_vars

\* The calls on handles, with unerasing calls made in the modules Ms for the
\* types Ts.
Operations(Ms, Ts) ==
    \/ \E h \in HandleIds : reborrow(h) /\ UNCHANGED other_vars
    \/ \E h \in HandleIds : reborrow_mut(h) /\ UNCHANGED other_vars
    \/ \E h \in HandleIds : clone_impl_smart(h) /\ UNCHANGED other_vars
    \/ \E h \in HandleIds : clone_impl_ref(h) /\ UNCHANGED other_vars
    \/ \E h \in HandleIds, m \in Ms, t \in Ts : as_unerased(h, m, t) /\ UNCHANGED other_vars
    \/ \E h \in HandleIds, m \in Ms, t \in Ts : as_unerased_mut(h, m, t) /\ UNCHANGED other_vars
    \/ \E h \in HandleIds, m \in Ms, t \in Ts : into_unerased(h, m, t) /\ UNCHANGED other_vars
    \/ \E h \in HandleIds, m \in Ms, t \in Ts : as_any_unerased(h, m, t) /\ UNCHANGED other_vars
    \/ \E h \in HandleIds, m \in Ms, t \in Ts : as_any_unerased_mut(h, m, t) /\ UNCHANGED other_vars
    \/ \E h \in HandleIds, m \in Ms, t \in Ts : into_any_unerased(h, m, t) /\ UNCHANGED other_vars
    \/ \E h \in HandleIds, o \in HandleIds : is_same_type(h, o) /\ UNCHANGED other_vars
    \/ \E h \in HandleIds : Drop(h) /\ UNCHANGED other_vars
    \/ \E i \in TypedIds : DropTyped(i) /\ UNCHANGED other_vars
    \/ TakeResult /\ UNCHANGED other_vars

\* The next-state relation, with constructor and unerasing calls made in the
\* modules Ms for the types Ts, pointers Ps, interfaces Is and lifetimes Bs.
NextOver(Ms, Ts, Ps, Is, Bs) ==
    \/ Constructors(Ms, Ts, Ps, Is, Bs)
    \/ Operations(Ms, Ts)

(***************************************************************************)
(* The dispatch table of NonExhaustive<E,S,I>                              *)
(* (abi_stable/src/nonexhaustive_enum/vtable.rs).  An interface I is the   *)
(* set of the capability selectors it declares True; an enum E is the set  *)
(* of the capabilities it implements.                                      *)
(***************************************************************************)
\* the selectors (associated types of InterfaceType) that initialise a field
Capabilities ==
    {"Clone", "Debug", "Display", "Serialize", "PartialEq", "PartialOrd", "Ord", "Hash"}

\* the enums a table is built for: one that implements every capability
\* and one that implements three of them
EnumImpls == {Capabilities, {"Clone", "Debug", "PartialEq"}}

\* the accessor a selector guards ($field of declare_field_initalizer!)
AccessorOf(c) ==
    CASE c = "Clone" -> "clone_"
      [] c = "Debug" -> "debug"
      [] c = "Display" -> "display"
      [] c = "Serialize" -> "serialize"
      [] c = "PartialEq" -> "partial_eq"
      [] c = "PartialOrd" -> "partial_cmp"
      [] c = "Ord" -> "cmp"
      [] OTHER -> "hash"

\* the private field an accessor reads ($priv_field)
PrivFieldOf(c) ==
    CASE c = "Clone" -> "_sabi_clone"
      [] c = "Debug" -> "_sabi_debug"
      [] c = "Display" -> "_sabi_display"
      [] c = "Serialize" -> "_sabi_serialize"
      [] c = "PartialEq" -> "_sabi_partial_eq"
      [] c = "PartialOrd" -> "_sabi_partial_cmp"
      [] c = "Ord" -> "_sabi_cmp"
      [] OTHER -> "_sabi_hash"

\* the function a True selector stores (value= of declare_field_initalizer!)
FieldValue(c) ==
    CASE c = "Clone" -> "alt_c_functions::clone_impl"
      [] c = "Debug" -> "c_functions::debug_impl"
      [] c = "Display" -> "c_functions::display_impl"
      [] c = "Serialize" -> "alt_c_functions::serialize_impl"
      [] c = "PartialEq" -> "alt_c_functions::partial_eq_impl"
      [] c = "PartialOrd" -> "alt_c_functions::partial_cmp_ord"
      [] c = "Ord" -> "alt_c_functions::cmp_ord"
      [] OTHER -> "c_functions::hash_Hash"

\* <I::$selector as $trait_name<E,S,I>>::VALUE: None for False, Some for True
InitField(I, c) == IF c \in I THEN Some(FieldValue(c)) ELSE None

\* the bounds of `impl GetVTable<S,I> for E`: a selector that is True needs
\* the where clause of its initializer (E: Clone, ..., I: SerializeEnum<E>)
GetVTableBounds(E, I) == \A c \in I : c \in E

\* VTABLE_VAL with _sabi_cmp and _sabi_partial_cmp both taken from I::PartialOrd
VTABLE_VAL_cmp_by_PartialOrd(I) ==
    [_sabi_drop |-> "alt_c_functions::drop_impl",
     _sabi_clone |-> InitField(I, "Clone"),
     _sabi_debug |-> InitField(I, "Debug"),
     _sabi_display |-> InitField(I, "Display"),
     _sabi_serialize |-> InitField(I, "Serialize"),
     _sabi_partial_eq |-> InitField(I, "PartialEq"),
     _sabi_partial_cmp |-> InitField(I, "PartialOrd"),
     _sabi_cmp |-> IF "PartialOrd" \in I THEN Some(FieldValue("Ord")) ELSE None,
     _sabi_hash |-> InitField(I, "Hash")]

\* <E as GetVTable<S,I>>::VTABLE_VAL
VTABLE_VAL(I) ==
    [_sabi_drop |-> "alt_c_functions::drop_impl",
     _sabi_clone |-> InitField(I, "Clone"),
     _sabi_debug |-> InitField(I, "Debug"),
     _sabi_display |-> InitField(I, "Display"),
     _sabi_serialize |-> InitField(I, "Serialize"),
     _sabi_partial_eq |-> InitField(I, "PartialEq"),
     _sabi_partial_cmp |-> InitField(I, "PartialOrd"),
     _sabi_cmp |-> InitField(I, "Ord"),
     _sabi_hash |-> InitField(I, "Hash")]

\* A module compiles `impl GetVTable<S,I> for E` with its version I of the
\* interface and builds the static table.
GetVTable(E, I) ==
    /\ ~enum_vtable.built
    /\ GetVTableBounds(E, I)
    /\ enum_vtable' = [built |-> TRUE, E |-> E, I |-> I, val |-> VTABLE_VAL(I),
                       call |-> NoEnumCall]
    /\ UNCHANGED <<dyn_trait_vars, prefix, abi_check, more_vars>>

\* prefix_type::panic_on_missing_fieldname: aborts with a message that names
\* the field
panic_on_missing_fieldname(field) ==
    [field |-> field, outcome |-> "panic", value |-> field]

\* an accessor that answers an empty slot with the drop function
accessor_without_panic(val, c) ==
    IF val[PrivFieldOf(c)].some
    THEN [field |-> PrivFieldOf(c), outcome |-> "returned", value |-> val[PrivFieldOf(c)].v]
    ELSE [field |-> PrivFieldOf(c), outcome |-> "returned", value |-> val._sabi_drop]

\* NonExhaustiveVtable::$field: `match self.$priv_field().into()`
accessor(val, c) ==
    IF val[PrivFieldOf(c)].some
    THEN [field |-> PrivFieldOf(c), outcome |-> "returned", value |-> val[PrivFieldOf(c)].v]
    ELSE panic_on_missing_fieldname(PrivFieldOf(c))

\* the versions of the interface a caller of the table may be compiled with:
\* the version the table was built with, and the versions that declare one
\* more capability or all of them
ViewsOf(I) == {I, Capabilities} \cup {I \cup {c} : c \in Capabilities}

\* A caller whose version `view` of the interface has $selector = True calls
\* the accessor of capability c on the table.
call_accessor(view, c) ==
    /\ enum_vtable.built
    /\ c \in view
    /\ enum_vtable' =
          [enum_vtable EXCEPT !.call =
              [field |-> accessor(enum_vtable.val, c).field,
               view |-> view,
               outcome |-> accessor(enum_vtable.val, c).outcome,
               value |-> accessor(enum_vtable.val, c).value]]
    /\ UNCHANGED <<dyn_trait_vars, prefix, abi_check, more_vars>>

NextEnumVtable ==
    \/ \E E \in EnumImpls, I \in SUBSET Capabilities : GetVTable(E, I)
    \/ \E view \in ViewsOf(enum_vtable.I), c \in Capabilities : call_accessor(view, c)

SpecEnumVtable == Init /\ [][NextEnumVtable]_vars

(***************************************************************************)
(* Prefix types (abi_stable/src/prefix_type/prefix_ref.rs,                 *)
(* abi_stable/src/type_layout/tl_prefix.rs).  A module (the producer)      *)
(* builds a static WithMetadata of its version of the struct; another (the *)
(* consumer) reads it through a PrefixRef with the accessors of its own    *)
(* version.  Fields are numbered from 0 in declaration order.              *)
(***************************************************************************)
FieldIds == 0..(MaxFields - 1)

RECURSIVE Pow2(_)
Pow2(n) == IF n = 0 THEN 1 ELSE 2 * Pow2(n - 1)

\* bit i of a bitmap (FieldAccessibility, FieldConditionality)
Bit(bits, i) == (bits \div Pow2(i)) % 2 = 1

\* the bitmap with the bits of the set S
BitsOf(S) ==
    LET RECURSIVE Sum(_)
        Sum(i) == IF i = MaxFields THEN 0
                  ELSE (IF i \in S THEN Pow2(i) ELSE 0) + Sum(i + 1)
    IN  Sum(0)

\* FieldAccessibility::with_field_count
with_field_count(k) == Pow2(k) - 1

\* FieldAccessibility::is_accessible
is_accessible(bits, i) == Bit(bits, i)

\* the value the producer compiled with k fields stores in field i
StoredValue(k, i) == 100 * k + i + 1

\* PrefixTypeTrait::METADATA of the producer's version of the struct: its k
\* fields are accessible, except the conditional prefix fields whose
\* accessible_if expression is false (those not in enabled)
METADATA(f, cond, k, enabled) ==
    [field_accessibility |->
        BitsOf({i \in FieldIds : i < k /\ (Bit(cond, i) => i \in enabled)})]

\* TLPrefixType of the producer's version
TLPrefixType(f, cond, k, enabled) ==
    [first_suffix_field |-> f,
     conditional_prefix_fields |-> cond,
     fields |-> k,
     accessible_fields |-> METADATA(f, cond, k, enabled).field_accessibility]

\* PrefixRef::from_ref(&WithMetadata::new(PrefixTypeTrait::METADATA, value)):
\* the producer's struct has k fields, the first f of them the prefix, those
\* of bitmap cond conditional; the consumer's version of the struct has n
\* fields and the same prefix.
from_ref(f, cond, k, enabled, n) ==
    /\ ~prefix.built
    /\ f <= k /\ f <= n
    /\ cond < Pow2(f)
    /\ enabled \subseteq {i \in FieldIds : Bit(cond, i)}
    /\ prefix' = [built |-> TRUE,
                  layout |-> TLPrefixType(f, cond, k, enabled),
                  metadata |-> METADATA(f, cond, k, enabled),
                  value |-> [i \in 1..k |-> StoredValue(k, i - 1)],
                  view |-> n,
                  got |-> [i \in FieldIds |-> NotCalled],
                  reads |-> {}]
    /\ UNCHANGED <<dyn_trait_vars, enum_vtable, abi_check, more_vars>>

\* metadata taken from the consumer's own version of the struct
metadata_of_own_version(self) == [field_accessibility |-> with_field_count(self.view)]

\* PrefixRef::metadata: `(*self.ptr.as_ptr()).metadata`
metadata(self) == self.metadata

\* a read of field i of the pointed-to value; outside the producer's struct
\* there is no field, the read finds whatever follows the static
ReadField(self, i) == IF i < Len(self.value) THEN self.value[i + 1] ELSE 0

\* the accessor of a prefix field that never looks at the accessibility bitmap
prefix_field_unconditional(self, i) == Present(ReadField(self, i))

\* The accessor of prefix field i: reads the field through PrefixRef::prefix,
\* after a look at the accessibility bit if the field is conditional.
prefix_field(self, i) ==
    IF Bit(self.layout.conditional_prefix_fields, i)
            /\ ~is_accessible(metadata(self).field_accessibility, i)
    THEN Absent
    ELSE Present(ReadField(self, i))

\* the accessor of a suffix field that trusts the consumer's field count
suffix_field_by_view(self, i) ==
    IF i < self.view THEN Present(ReadField(self, i)) ELSE Absent

\* The accessor of suffix field i: absent unless the producer's metadata
\* says the field is accessible.
suffix_field(self, i) ==
    IF is_accessible(metadata(self).field_accessibility, i)
    THEN Present(ReadField(self, i))
    ELSE Absent

\* the consumer calls the accessor of prefix field i
get_prefix_field(i) ==
    /\ prefix.built
    /\ i < prefix.layout.first_suffix_field
    /\ prefix' = [prefix EXCEPT
                    !.got[i] = prefix_field(prefix, i),
                    !.reads = IF prefix_field(prefix, i).present THEN @ \cup {i} ELSE @]
    /\ UNCHANGED <<dyn_trait_vars, enum_vtable, abi_check, more_vars>>

\* the consumer calls the accessor of suffix field i of its version
get_suffix_field(i) ==
    /\ prefix.built
    /\ prefix.layout.first_suffix_field <= i
    /\ i < prefix.view
    /\ prefix' = [prefix EXCEPT
                    !.got[i] = suffix_field(prefix, i),
                    !.reads = IF suffix_field(prefix, i).present THEN @ \cup {i} ELSE @]
    /\ UNCHANGED <<dyn_trait_vars, enum_vtable, abi_check, more_vars>>

NextPrefix ==
    \/ \E f \in 0..MaxFields, cond \in 0..(Pow2(MaxFields) - 1), k \in 0..MaxFields,
          enabled \in SUBSET FieldIds, n \in 0..MaxFields : from_ref(f, cond, k, enabled, n)
    \/ \E i \in FieldIds : get_prefix_field(i)
    \/ \E i \in FieldIds : get_suffix_field(i)

SpecPrefix == Init /\ [][NextPrefix]_vars

(***************************************************************************)
(* Layouts of enums (abi_stable/src/type_layout/tl_enums.rs).              *)
(***************************************************************************)
\* the integer types of the discriminant lists that are compared
DiscriminantReprs == {"U8", "I8", "U16"}

\* the values of those types the lists are made of
DiscriminantValues(repr) == IF repr = "I8" THEN {-1, 0, 1} ELSE {0, 1, 2}

\* the sequences over S of length at most n
SeqsUpTo(S, n) == UNION {[1..m -> S] : m \in 0..n}

\* TLDiscriminants::from_u8_slice, from_i8_slice, ...: the variant of the
\* integer type with the list of discriminants
from_slice(repr, arr) == [repr |-> repr, discriminants |-> arr]

\* the number x, |x| < 2^16, as the 64 bits of `x as i64` / `x as u64`, in
\* four 16-bit limbs, most significant first (two's complement)
Bits64(x) ==
    IF x >= 0 THEN <<0, 0, 0, x>> ELSE <<65535, 65535, 65535, 65536 + x>>

\* the variant of TLDiscriminant a finding wraps a value in ($single of
\* declare_tl_discriminants!)
Single(repr) ==
    CASE repr \in {"U8", "U16", "U32", "U64"} -> "Signed"
      [] repr \in {"I8", "I16", "I32", "I64"} -> "Unsigned"
      [] repr = "Usize" -> "Usize"
      [] OTHER -> "Isize"

\* |x| TLDiscriminant::$single(x as _)
TLDiscriminant(repr, x) == [variant |-> Single(repr), bits |-> Bits64(x)]

\* discriminant_repr that forgets the signedness
discriminant_repr_unsigned(self) ==
    CASE self.repr = "I8" -> "U8" [] self.repr = "I16" -> "U16" [] OTHER -> self.repr

\* TLDiscriminants::discriminant_repr
discriminant_repr(self) == self.repr

\* ReprAttr::Int
ReprAttr_Int(repr) == [variant |-> "Int", repr |-> repr]

\* abi_checking::push_err: one finding with what was expected and what was found
push_err(errs, expected, found, kind) ==
    Append(errs, [kind |-> kind, expected |-> expected, found |-> found])

Min(a, b) == IF a < b THEN a ELSE b

\* the loop over `t_discrs.iter().zip(o_discrs)` from pair i on
RECURSIVE CompareDiscrs(_, _, _, _, _)
CompareDiscrs(repr, t_discrs, o_discrs, i, errs) ==
    IF i > Min(Len(t_discrs), Len(o_discrs))
    THEN errs
    ELSE CompareDiscrs(repr, t_discrs, o_discrs, i + 1,
            IF t_discrs[i] # o_discrs[i]
            THEN push_err(errs, TLDiscriminant(repr, t_discrs[i]),
                          TLDiscriminant(repr, o_discrs[i]), "EnumDiscriminant")
            ELSE errs)

\* Result<(),RVec<AbiInstability>>
ResultOf(errs) == [ok |-> errs = <<>>, errs |-> errs]

\* compare that returns at the first discriminant that differs
compare_first_mismatch_only(self, other) ==
    IF self.repr = other.repr
    THEN LET errs == CompareDiscrs(self.repr, self.discriminants, other.discriminants,
                                   1, <<>>)
         IN  ResultOf(IF errs = <<>> THEN errs ELSE <<errs[1]>>)
    ELSE ResultOf(push_err(<<>>, ReprAttr_Int(discriminant_repr(self)),
                           ReprAttr_Int(discriminant_repr(other)), "ReprAttr"))

\* TLDiscriminants::compare
compare(self, other) ==
    IF self.repr = other.repr
    THEN ResultOf(CompareDiscrs(self.repr, self.discriminants, other.discriminants,
                                1, <<>>))
    ELSE ResultOf(push_err(<<>>, ReprAttr_Int(discriminant_repr(self)),
                           ReprAttr_Int(discriminant_repr(other)), "ReprAttr"))

\* the findings about the per-variant field counts of two enums, from
\* variant i on
RECURSIVE CompareFieldCounts(_, _, _, _)
CompareFieldCounts(t_fcount, o_fcount, i, errs) ==
    IF i > Min(Len(t_fcount), Len(o_fcount))
    THEN errs
    ELSE CompareFieldCounts(t_fcount, o_fcount, i + 1,
            IF t_fcount[i] # o_fcount[i]
            THEN push_err(errs, t_fcount[i], o_fcount[i], "FieldCountMismatch")
            ELSE errs)

\* a checker that reports the discriminants only if the field counts agree
check_enum_first_category_only(t_enum, o_enum) ==
    LET f_errs == CompareFieldCounts(t_enum.field_count, o_enum.field_count, 1, <<>>)
    IN  IF f_errs # <<>>
        THEN ResultOf(f_errs)
        ELSE compare(t_enum.discriminants, o_enum.discriminants)

\* The checker's comparison of two enum layouts: the findings about the
\* field counts followed by those of TLDiscriminants::compare.
check_enum(t_enum, o_enum) ==
    ResultOf(CompareFieldCounts(t_enum.field_count, o_enum.field_count, 1, <<>>)
                \o compare(t_enum.discriminants, o_enum.discriminants).errs)

\* the layouts of enums with discriminants of the types Rs and values Ds,
\* and at most MaxVariants variants of at most maxf fields
TLEnums(Rs, Ds, maxf) ==
    UNION {[field_count : [1..n -> 0..maxf],
            discriminants : UNION {{from_slice(r, d) :
                                        d \in [1..n -> DiscriminantValues(r) \cap Ds]}
                                        : r \in Rs}]
            : n \in 0..MaxVariants}

\* two modules hand the layouts of their versions of an enum, out of Es, to
\* the checker
load_layouts(Es) ==
    /\ ~abi_check.loaded
    /\ \E this \in Es, other \in Es :
            abi_check' = [NoAbiCheck EXCEPT !.loaded = TRUE, !.this = this, !.other = other]
    /\ UNCHANGED <<dyn_trait_vars, enum_vtable, prefix, more_vars>>

\* this.discriminants.compare(&other.discriminants)
call_compare ==
    /\ abi_check.loaded
    /\ abi_check.called = ""
    /\ abi_check' = [abi_check EXCEPT
                        !.called = "compare",
                        !.result = compare(abi_check.this.discriminants,
                                           abi_check.other.discriminants)]
    /\ UNCHANGED <<dyn_trait_vars, enum_vtable, prefix, more_vars>>

\* the checker compares the two enum layouts
call_check_enum ==
    /\ abi_check.loaded
    /\ abi_check.called = ""
    /\ abi_check' = [abi_check EXCEPT
                        !.called = "check_enum",
                        !.result = check_enum(abi_check.this, abi_check.other)]
    /\ UNCHANGED <<dyn_trait_vars, enum_vtable, prefix, more_vars>>

\* TLEnum::variant_count
variant_count(self) == Len(self.field_count)

\* TLEnum::max_min
max_min(self, other) ==
    IF variant_count(self) < variant_count(other)
    THEN <<self, other>>
    ELSE <<other, self>>

\* this.max_min(&other)
call_max_min ==
    /\ abi_check.loaded
    /\ abi_check.called = ""
    /\ abi_check' = [abi_check EXCEPT
                        !.called = "max_min",
                        !.pair = max_min(abi_check.this, abi_check.other)]
    /\ UNCHANGED <<dyn_trait_vars, enum_vtable, prefix, more_vars>>

NextLayoutOver(Rs, Ds, maxf) ==
    \/ load_layouts(TLEnums(Rs, Ds, maxf))
    \/ call_compare
    \/ call_check_enum
    \/ call_max_min

\* discriminant lists of three integer types, variants without fields
NextDiscriminants == NextLayoutOver(DiscriminantReprs, -1..2, 0)

SpecDiscriminants == Init /\ [][NextDiscriminants]_vars

\* enums with u8 discriminants 0 and 1 whose variants have no field or one
NextEnumLayout == NextLayoutOver({"U8"}, 0..1, 1)

SpecEnumLayout == Init /\ [][NextEnumLayout]_vars

(***************************************************************************)
(* The storage of nonexhaustive enums (type_layout/tl_enums.rs).           *)
(***************************************************************************)
\* TLNonExhaustive::new::<T>() for a T of the size and the alignment 2^pow2
TLNonExhaustive_new(size, pow2) ==
    [original_size |-> size, original_alignment_pow2 |-> pow2]

\* TLNonExhaustive::original_size
original_size(self) == self.original_size

\* TLNonExhaustive::original_alignment
original_alignment(self) == Pow2(self.original_alignment_pow2)

\* Ok(())
StorageOk == [NoStorageCheck.result EXCEPT !.ok = TRUE]

\* check_compatible that looks at the size only
check_compatible_size_only(self, layout) ==
    IF layout.size < original_size(self)
    THEN [ok |-> FALSE,
          err |-> [type_size |-> original_size(self),
                   type_alignment |-> original_alignment(self),
                   storage_size |-> layout.size,
                   storage_alignment |-> layout.alignment]]
    ELSE StorageOk

\* TLNonExhaustive::check_compatible
check_compatible(self, layout) ==
    LET err == \/ layout.size < original_size(self)
               \/ layout.alignment < original_alignment(self)
    IN  IF err
        THEN [ok |-> FALSE,
              err |-> [type_size |-> original_size(self),
                       type_alignment |-> original_alignment(self),
                       storage_size |-> layout.size,
                       storage_alignment |-> layout.alignment]]
        ELSE StorageOk

\* the layout of a storage type of the size and the alignment 2^pow2
StorageLayout(size, pow2) == [size |-> size, alignment |-> Pow2(pow2)]

\* An enum of t_size bytes aligned to 2^t_pow2, of which its module knows
\* t_variants variants, is checked against a storage of s_size bytes aligned
\* to 2^s_pow2 declared where s_variants variants are known.
call_check_compatible(t_size, t_pow2, t_variants, s_size, s_pow2, s_variants) ==
    /\ ~storage_check.called
    /\ storage_check' =
            [called |-> TRUE,
             nonexhaustive |-> TLNonExhaustive_new(t_size, t_pow2),
             layout |-> StorageLayout(s_size, s_pow2),
             enum_variants |-> t_variants,
             storage_variants |-> s_variants,
             result |-> check_compatible(TLNonExhaustive_new(t_size, t_pow2),
                                         StorageLayout(s_size, s_pow2))]
    /\ UNCHANGED <<first_vars, tl_eq, rcow, names_iter>>

\* the result has been looked at
forget_storage_check ==
    /\ storage_check.called
    /\ storage_check' = NoStorageCheck
    /\ UNCHANGED <<first_vars, tl_eq, rcow, names_iter>>

NextStorage ==
    \/ \E t_size \in 0..MaxSize, t_pow2 \in 0..MaxAlignPow2, t_variants \in 1..MaxVariants,
          s_size \in 0..MaxSize, s_pow2 \in 0..MaxAlignPow2, s_variants \in 1..MaxVariants :
            call_check_compatible(t_size, t_pow2, t_variants, s_size, s_pow2, s_variants)
    \/ forget_storage_check

SpecStorage == Init /\ [][NextStorage]_vars

(***************************************************************************)
(* Equality of layouts (type_layout/tl_enums.rs, type_layout/tl_fields.rs).*)
(* statics[a] is the static at address a: statics[1] is in lib0 and        *)
(* statics[2] in lib1.  A static of discriminants has their integer type   *)
(* and the discriminants; a static of fields has the compressed fields,    *)
(* each the index of its name in the names, and the names (the SharedVars).*)
(***************************************************************************)
\* slice::from_raw_parts(ptr, len) / RSlice::from_raw_parts(ptr, len)
from_raw_parts(statics, ptr, len) == SubSeq(statics[ptr].elems, 1, len)

\* == of two slices, Iterator::eq of two iterators: the same length and equal
\* elements
ElementsEq(a, b) == Len(a) = Len(b) /\ \A i \in 1..Len(a) : a[i] = b[i]

\* TLDiscriminants::from_u8_slice, ... of the static at ptr: its variant,
\* length and pointer
TLDiscriminants_of(statics, ptr) ==
    [repr |-> statics[ptr].repr, len |-> Len(statics[ptr].elems), ptr |-> ptr,
     shared_vars |-> 0]

\* the == a derived PartialEq would be: the variants, the lengths and the
\* pointers are the same
TLDiscriminants_eq_derived(statics, self, other) == self = other

\* <TLDiscriminants as PartialEq>::eq
TLDiscriminants_eq(statics, self, other) ==
    IF self.repr = other.repr
    THEN ElementsEq(from_raw_parts(statics, self.ptr, self.len),
                    from_raw_parts(statics, other.ptr, other.len))
    ELSE FALSE

\* TLFields::from_fields of the static at ptr
TLFields_from_fields(statics, ptr) ==
    [repr |-> "", len |-> Len(statics[ptr].elems), ptr |-> ptr, shared_vars |-> ptr]

\* CompTLField::expand: the field with its name looked up in the SharedVars
expand(field, i, statics, shared_vars) == [name |-> statics[shared_vars].names[field]]

\* TLFields::iter, as the list of what the iterator yields
TLFields_iter(statics, self) ==
    [i \in 1..self.len |->
        expand(from_raw_parts(statics, self.ptr, self.len)[i], i, statics, self.shared_vars)]

\* <TLFields as PartialEq>::eq
TLFields_eq(statics, self, other) ==
    ElementsEq(TLFields_iter(statics, self), TLFields_iter(statics, other))

\* the statics of discriminants: u8 or i8, at most MaxVariants of 0 and 1
DiscriminantStatics ==
    {[repr |-> r, elems |-> d, names |-> <<>>] :
        r \in {"U8", "I8"}, d \in SeqsUpTo({0, 1}, MaxVariants)}

\* the statics of fields: at most MaxFields fields named x or y, the names in
\* either order in the SharedVars
FieldStatics ==
    {[repr |-> "", elems |-> f, names |-> n] :
        f \in SeqsUpTo({1, 2}, MaxFields), n \in {<<"x", "y">>, <<"y", "x">>}}

\* the TLDiscriminants of the statics at p and q are compared with ==
eq_discriminants(p, q) ==
    /\ tl_eq.called = ""
    /\ \E s1 \in DiscriminantStatics, s2 \in DiscriminantStatics :
            LET statics == <<s1, s2>>
            IN  tl_eq' = [called |-> "TLDiscriminants",
                          statics |-> statics,
                          this |-> TLDiscriminants_of(statics, p),
                          other |-> TLDiscriminants_of(statics, q),
                          result |-> TLDiscriminants_eq(statics,
                                        TLDiscriminants_of(statics, p),
                                        TLDiscriminants_of(statics, q))]
    /\ UNCHANGED <<first_vars, storage_check, rcow, names_iter>>

\* the TLFields of the statics at p and q are compared with ==
eq_fields(p, q) ==
    /\ tl_eq.called = ""
    /\ \E s1 \in FieldStatics, s2 \in FieldStatics :
            LET statics == <<s1, s2>>
            IN  tl_eq' = [called |-> "TLFields",
                          statics |-> statics,
                          this |-> TLFields_from_fields(statics, p),
                          other |-> TLFields_from_fields(statics, q),
                          result |-> TLFields_eq(statics,
                                        TLFields_from_fields(statics, p),
                                        TLFields_from_fields(statics, q))]
    /\ UNCHANGED <<first_vars, storage_check, rcow, names_iter>>

NextLayoutEq ==
    \/ \E p \in 1..2, q \in 1..2 : eq_discriminants(p, q)
    \/ \E p \in 1..2, q \in 1..2 : eq_fields(p, q)

SpecLayoutEq == Init /\ [][NextLayoutEq]_vars

(***************************************************************************)
(* RCow (std_types/cow), as its tests use it.  The RCow borrows one value, *)
(* rcow.data.                                                              *)
(***************************************************************************)
\* the values that are borrowed and written
CowValues == {100, 137, 99}

\* RCow::Borrowed(&data)
RCow_Borrowed == [variant |-> "Borrowed", owned |-> 0]

\* RCow::to_mut: the RCow after the call, which owns a clone of what it
\* borrowed
to_mut(self, data) ==
    IF self.variant = "Borrowed" THEN [variant |-> "Owned", owned |-> data] ELSE self

\* a deref that reads what was borrowed, also of an RCow that owns a value
deref_borrowed(self, data) == data

\* <RCow as Deref>::deref
deref(self, data) == IF self.variant = "Borrowed" THEN data ELSE self.owned

\* let mut value=RCow::Borrowed(&v)
Borrowed(v) ==
    /\ ~rcow.built
    /\ rcow' = [NoRCow EXCEPT !.built = TRUE, !.orig = v, !.data = v, !.value = RCow_Borrowed]
    /\ UNCHANGED <<first_vars, storage_check, tl_eq, names_iter>>

\* *value.to_mut()=v
write_to_mut(v) ==
    /\ rcow.built
    /\ Len(rcow.writes) < MaxWrites
    /\ rcow' = [rcow EXCEPT !.value = [to_mut(rcow.value, rcow.data) EXCEPT !.owned = v],
                            !.writes = Append(@, v)]
    /\ UNCHANGED <<first_vars, storage_check, tl_eq, names_iter>>

\* *value
read_deref ==
    /\ rcow.built
    /\ rcow' = [rcow EXCEPT !.read = [some |-> TRUE, v |-> deref(rcow.value, rcow.data),
                                      at |-> Len(rcow.writes)]]
    /\ UNCHANGED <<first_vars, storage_check, tl_eq, names_iter>>

NextRCow ==
    \/ \E v \in CowValues : Borrowed(v)
    \/ \E v \in CowValues : write_to_mut(v)
    \/ read_deref

SpecRCow == Init /\ [][NextRCow]_vars

\* Identity and ownership: two modules, two types, payloads in a box or behind
\* a &'static reference.
Next ==
    \/ NextOver(Modules, Types, {"RBox", "Ref"}, {"ISendSync"}, {"static"})
    \/ RequireBounds

Spec == Init /\ [][Next]_vars

\* Two types of one module: unerasing to the erased type and to another one.
\* Values of U are boxed.
NextTypes ==
    \/ Constructors({"lib0"}, {"T"}, {"RBox", "Ref"}, {"ISendSync"}, {"static"})
    \/ Constructors({"lib0"}, {"U"}, {"RBox"}, {"ISendSync"}, {"static"})
    \/ Operations({"lib0"}, Types)

SpecTypes == Init /\ [][NextTypes]_vars

\* One type compiled into two modules: unerasing across the module boundary.
\* The values lib1 erases are boxed.
NextModules ==
    \/ Constructors({"lib0"}, {"T"}, {"RBox", "Ref"}, {"ISendSync"}, {"static"})
    \/ Constructors({"lib1"}, {"T"}, {"RBox"}, {"ISendSync"}, {"static"})
    \/ Operations(Modules, {"T"})

SpecModules == Init /\ [][NextModules]_vars

\* Comparisons of handles of two types of one module; values of U are boxed.
NextCompare ==
    \/ NextTypes
    \/ Comparisons

SpecCompare == Init /\ [][NextCompare]_vars

\* Clones and defaults: one module and type; a clone of a reference can be
\* the clone of a reborrow, the third handle after the reborrow and its source.
NextClone ==
    \/ NextOver({"lib0"}, {"T"}, {"RBox", "Ref"}, {"ISendSync"}, {"static"})
    \/ \E h \in HandleIds : default(h) /\ UNCHANGED other_vars
    \/ \E h \in HandleIds : clone_impl_ref_within(h, MaxHandles + 1) /\ UNCHANGED other_vars

SpecClone == Init /\ [][NextClone]_vars

\* Ownership and borrowing interfaces: one module and type, payloads in a box
\* or behind a &'static reference.
NextOwnership == NextOver({"lib0"}, {"T"}, {"RBox", "Ref"}, {"ISendSync"}, {"static"})

SpecOwnership == Init /\ [][NextOwnership]_vars

\* Send and Sync: one module and type, a pointer that is neither Send nor Sync
\* next to those that are both, interfaces with both flags (that of T), with
\* Send alone and with Sync alone.
NextAutoTraits ==
    \/ NextOver({"lib0"}, {"T"}, {"LocalPtr", "Ref"}, {"ISend", "ISync"}, {"static"})
    \/ RequireBounds

SpecAutoTraits == Init /\ [][NextAutoTraits]_vars

\* Thread affinity: one module and type, every pointer type and interface.
NextAffinity ==
    \/ NextOver({"lib0"}, {"T"}, CtorPtrs, Interfaces, Lifetimes)
    \/ RequireBounds

SpecAffinity == Init /\ [][NextAffinity]_vars

(***************************************************************************)
(* Properties.                                                             *)
(***************************************************************************)
UneraseOps ==
    {"as_unerased", "as_unerased_mut", "into_unerased",
     "as_any_unerased", "as_any_unerased_mut", "into_any_unerased"}
IntoOps == {"into_unerased", "into_any_unerased"}

\* the reborrow flag of handle h
IsBorrowedSet(h) == (AndPtrFlags(handles[h].vtable) % 2) = PTR_FLAG_IS_BORROWED

\* the handles whose Drop::drop ran with the reborrow flag clear, on payload o
DroppedOwners(o) ==
    {h \in HandleIds : /\ handles[h].object = o
                       /\ handles[h].state = "dropped"
                       /\ ~IsBorrowedSet(h)}

\* the typed pointers that owned payload o and are gone
DeadTypedOwners(o) ==
    {i \in TypedIds : typed[i].object = o /\ ~typed[i].live /\ P_Owning(typed[i].P)}

\* C1: a handle whose Drop ran has called the destructor slot exactly once if
\* its reborrow flag is clear and not at all if it is set, a handle whose Drop
\* did not run has not called it; so the slot ran on a payload once per dropped
\* handle with the flag clear, and dropping a reborrow leaves the payload as
\* it was (its destructor runs are those of its owners alone).
C1_DropRunsSlotOnceIffNotBorrowed ==
    /\ \A h \in HandleIds :
          handles[h].drop_calls =
              IF handles[h].state = "dropped" /\ ~IsBorrowedSet(h) THEN 1 ELSE 0
    /\ \A o \in PayloadIds :
          /\ payloads[o].slot_runs = Cardinality(DroppedOwners(o))
          /\ payloads[o].destroyed =
                Cardinality({h \in DroppedOwners(o) : P_Owning(handles[h].P)})
                    + Cardinality(DeadTypedOwners(o))

\* a handle and a reborrow of it have both been dropped: the slot ran once
C1_Witness ==
    \E h \in HandleIds, r \in HandleIds :
        /\ handles[r].src = h
        /\ IsBorrowedSet(r) /\ ~IsBorrowedSet(h)
        /\ handles[r].state = "dropped" /\ handles[h].state = "dropped"
        /\ handles[r].drop_calls = 0 /\ handles[h].drop_calls = 1
        /\ payloads[handles[h].object].slot_runs = 1

\* C2: after a successful into_unerased/into_any_unerased the handle is
\* consumed without its Drop having run (no call of the destructor slot), the
\* returned pointer holds the payload, and no payload is ever destroyed twice.
C2_IntoUnerasedTransfersOwnership ==
    /\ (last.op \in IntoOps /\ last.ok) =>
          /\ handles[last.h].state = "consumed"
          /\ handles[last.h].drop_calls = 0
          /\ typed[Len(typed)].object = handles[last.h].object
          /\ typed[Len(typed)].P = handles[last.h].P
    /\ \A h \in HandleIds : handles[h].state = "consumed" => handles[h].drop_calls = 0
    /\ \A o \in PayloadIds : payloads[o].destroyed <= 1

\* an owning handle was unerased and the pointer it returned was dropped
C2_Witness ==
    \E h \in HandleIds, i \in TypedIds :
        /\ handles[h].state = "consumed"
        /\ P_Owning(handles[h].P)
        /\ typed[i].object = handles[h].object
        /\ ~typed[i].live
        /\ payloads[handles[h].object].destroyed = 1

\* the concrete type of the value behind handle h: a type of one module
ErasedType(h) ==
    <<payloads[handles[h].object].module, payloads[handles[h].object].ty>>

\* C3: on a handle that comes from from_value/from_ptr/from_any_value/
\* from_any_ptr, an unerasing call succeeds exactly when the requested type is
\* the type the handle was constructed from (types of different modules being
\* different types); when it succeeds it yields the handle's payload, the
\* value the handle was constructed from, and when it fails it yields nothing.
C3_DowncastSoundness ==
    (last.op \in UneraseOps /\ handles[last.h].made_by \in {"impl", "any"}) =>
        /\ last.ok <=> (<<last.module, last.ty>> = ErasedType(last.h))
        /\ last.ok => /\ last.out = handles[last.h].object
                      /\ payloads[last.out].value = handles[last.h].erased
        /\ ~last.ok => last.out = 0 /\ last.err # NoError

\* a from_value handle unerased through the *_any_* path to its own type
C3_Witness ==
    /\ last.op = "as_any_unerased"
    /\ handles[last.h].made_by = "impl"
    /\ handles[last.h].src = 0
    /\ last.ok
    /\ <<last.module, last.ty>> = ErasedType(last.h)
    /\ last.out = handles[last.h].object

\* the address of the table the last unerasing call compared against
LastTarget == get_vtable(last.module, last.ty, last.kind, last.P, last.I)

\* C4: an unerasing call succeeds if and only if the handle's table address
\* (its pointer without the flag bits) is the address of the target type's
\* table, or the identity token of the handle's table is compatible with the
\* token of the target's table.
C4_IdentityCheckPaths ==
    last.op \in UneraseOps =>
        (last.ok <=>
            \/ PTR_MASK(last.self_vtable) = LastTarget
            \/ is_compatible(type_info(PTR_MASK(last.self_vtable)), type_info(LastTarget)))

\* a call that succeeded on the slow path: the addresses differ
C4_Witness ==
    /\ last.op \in UneraseOps
    /\ last.ok
    /\ PTR_MASK(last.self_vtable) # LastTarget
    /\ is_compatible(type_info(PTR_MASK(last.self_vtable)), type_info(LastTarget))

\* C5 (as claimed): a failed unerasing call returns an UneraseError holding the
\* address and token of the target's table as expected_* and the address and
\* token of the handle's table as found_*, for reborrowed handles too.
C5_ErrorCarriesBothTables ==
    (last.op \in UneraseOps /\ ~last.ok) =>
        /\ last.err.expected_vtable_address = LastTarget
        /\ last.err.expected_type_info = type_info(LastTarget)
        /\ last.err.found_vtable_address = PTR_MASK(last.self_vtable)
        /\ last.err.found_type_info = type_info(PTR_MASK(last.self_vtable))

\* C6: no unerasing call on a handle that comes from from_borrowing_value/
\* from_borrowing_ptr succeeds.
C6_BorrowingNeverUnerased ==
    (last.op \in UneraseOps /\ handles[last.h].made_by = "borrowing") => ~last.ok

\* a from_borrowing handle was asked for exactly the type that was erased
C6_Witness ==
    /\ last.op \in UneraseOps
    /\ handles[last.h].made_by = "borrowing"
    /\ handles[last.h].src = 0
    /\ <<last.module, last.ty>> = ErasedType(last.h)
    /\ ~last.ok

\* C7: an unerasing call made in a module other than the one that constructed
\* the handle fails, and is_same_type is false for two handles whose payload
\* types come from different modules.
C7_NoIdentityAcrossModules ==
    /\ (last.op \in UneraseOps /\ last.module # payloads[handles[last.h].object].module)
            => ~last.ok
    /\ (/\ last.op = "is_same_type"
        /\ payloads[handles[last.h].object].module
                # payloads[handles[last.other].object].module)
            => ~last.ok

\* the type of the same name was asked for in the other module
C7_Witness ==
    /\ last.op \in UneraseOps
    /\ handles[last.h].made_by \in {"impl", "any"}
    /\ last.module # payloads[handles[last.h].object].module
    /\ last.ty = payloads[handles[last.h].object].ty
    /\ ~last.ok

\* C8 (as claimed): is_same_type is false whenever one of the two handles
\* comes from from_borrowing_value/from_borrowing_ptr.
C8_BorrowingNeverSameType ==
    (/\ last.op = "is_same_type"
     /\ \/ handles[last.h].made_by = "borrowing"
        \/ handles[last.other].made_by = "borrowing")
        => ~last.ok

ReborrowOps == {"reborrow", "reborrow_mut"}

\* C9: a step of reborrow/reborrow_mut adds one handle that has the reborrow
\* flag set, points at the payload of the source and has the table address of
\* the source; the source and every other handle, the payloads and the typed
\* pointers are as before, the source still alive with its flag as it was.
C9_ReborrowFrame ==
    [][(last'.op \in ReborrowOps /\ Len(handles') = Len(handles) + 1) =>
            LET r == handles'[Len(handles')]
                src == handles[last'.h]
            IN  /\ last'.out = Len(handles')
                /\ (AndPtrFlags(r.vtable) % 2) = PTR_FLAG_IS_BORROWED
                /\ r.object = src.object
                /\ PTR_MASK(r.vtable) = PTR_MASK(src.vtable)
                /\ r.state = "live"
                /\ src.state = "live"
                /\ \A h \in HandleIds : handles'[h] = handles[h]
                /\ payloads' = payloads
                /\ typed' = typed]_vars

\* an owning handle and a live reborrow_mut of it
C9_Witness ==
    /\ last.op = "reborrow_mut"
    /\ ~IsBorrowedSet(last.h)
    /\ IsBorrowedSet(last.out)
    /\ handles[last.out].object = handles[last.h].object
    /\ handles[last.h].state = "live"

\* C10 (as claimed): a handle obtained by reborrow/reborrow_mut is Send only if
\* its source is Send, and Sync only if its source is Sync.
C10_ReborrowAffinitySubset ==
    \A r \in HandleIds :
        (handles[r].src # 0 /\ handles[r].P \in {"Ref", "RefMut"}) =>
            /\ IsSend(r) => IsSend(handles[r].src)
            /\ IsSync(r) => IsSync(handles[r].src)

\* C11: the interface of a handle made by reborrow/reborrow_mut is the
\* interface of its source and declares both of Send and Sync or neither;
\* no reborrow has an interface with exactly one of the two.
C11_ReborrowAllOrNothing ==
    /\ last.op \in ReborrowOps =>
          /\ handles[last.out].I = handles[last.h].I
          /\ I_Send(handles[last.out].I) = I_Sync(handles[last.out].I)
    /\ \A r \in HandleIds :
          (handles[r].src # 0 /\ IsBorrowedSet(r)) =>
              I_Send(handles[r].I) = I_Sync(handles[r].I)

\* a source whose interface has both flags was reborrowed: they remain present
C11_Witness ==
    /\ last.op \in ReborrowOps
    /\ I_Send(handles[last.h].I) /\ I_Sync(handles[last.h].I)
    /\ I_Send(handles[last.out].I) /\ I_Sync(handles[last.out].I)
    /\ handles[last.out].src = last.h

\* C12: a handle is Send exactly when its pointer type is Send and its
\* interface declares Send, and Sync exactly when its pointer type is Sync and
\* its interface declares Sync; neither answer looks at the other flag.
C12_AutoTraitsAreConjunctions ==
    /\ last.op = "require_send" =>
          (last.ok <=> (P_Send(handles[last.h].P) /\ I_Send(handles[last.h].I)))
    /\ last.op = "require_sync" =>
          (last.ok <=> (P_Sync(handles[last.h].P) /\ I_Sync(handles[last.h].I)))

\* a handle that is Send although its interface does not declare Sync
C12_Witness ==
    /\ last.op = "require_send"
    /\ last.ok
    /\ ~I_Sync(handles[last.h].I)
    /\ P_Send(handles[last.h].P)

\* the selector whose accessor reads private field f
SelectorOf(f) == CHOOSE c \in Capabilities : PrivFieldOf(c) = f

\* C13: a caller whose view of the interface declares a capability, reading
\* a slot the table left empty, aborts in panic_on_missing_fieldname with the
\* name of that field; it gets a function back only from a populated slot,
\* and then the function of that slot.
C13_MissingCapabilityPanics ==
    enum_vtable.call.field # "" =>
        LET call == enum_vtable.call
            slot == enum_vtable.val[call.field]
        IN  /\ SelectorOf(call.field) \in call.view
            /\ ~slot.some => (call.outcome = "panic" /\ call.value = call.field)
            /\ slot.some => (call.outcome = "returned" /\ call.value = slot.v)

\* the caller's version declares a capability the table's version did not
C13_Witness ==
    /\ enum_vtable.call.field = "_sabi_hash"
    /\ "Hash" \in enum_vtable.call.view
    /\ "Hash" \notin enum_vtable.I
    /\ enum_vtable.call.outcome = "panic"
    /\ enum_vtable.call.value = "_sabi_hash"

\* C14: in a built table every capability's slot is populated exactly when
\* the interface declares that capability (which the enum then implements),
\* with that capability's function, and the destructor slot is populated.
C14_SlotsFollowTheInterface ==
    enum_vtable.built =>
        /\ \A c \in Capabilities :
              /\ enum_vtable.val[PrivFieldOf(c)].some <=> c \in enum_vtable.I
              /\ c \in enum_vtable.I =>
                    /\ c \in enum_vtable.E
                    /\ enum_vtable.val[PrivFieldOf(c)].v = FieldValue(c)
        /\ enum_vtable.val._sabi_drop = "alt_c_functions::drop_impl"

\* an interface that declares PartialOrd and not Ord: _sabi_partial_cmp is
\* populated and _sabi_cmp is empty
C14_Witness ==
    /\ enum_vtable.built
    /\ "PartialOrd" \in enum_vtable.I /\ "Ord" \notin enum_vtable.I
    /\ enum_vtable.val._sabi_partial_cmp.some
    /\ ~enum_vtable.val._sabi_cmp.some

IsPointScenario ==
    /\ prefix.built
    /\ prefix.layout.first_suffix_field = 2
    /\ prefix.layout.conditional_prefix_fields = 0
    /\ prefix.view = 3
    /\ prefix.layout.fields \in {2, 3}

\* C16: in the Point scenario the accessor of z returns absent on the data of
\* producer A ({x, y}) and B's value on the data of producer B ({x, y, z});
\* the accessors of x and y return the producer's values on both.
C16_PointAcrossVersions ==
    IsPointScenario =>
        LET k == prefix.layout.fields
        IN  /\ prefix.got[2].called =>
                  prefix.got[2] = IF k = 2 THEN Absent ELSE Present(StoredValue(3, 2))
            /\ \A i \in {0, 1} :
                  prefix.got[i].called => prefix.got[i] = Present(StoredValue(k, i))

\* x, y and z were read through a handle to A's data
C16_Witness ==
    /\ IsPointScenario
    /\ prefix.layout.fields = 2
    /\ prefix.got[0].present /\ prefix.got[1].present
    /\ prefix.got[2] = Absent

\* C17: the accessor of a prefix field that is not conditional returns the
\* field's value; the accessor of a conditional prefix field returns the
\* value if the field's bit in the producer's accessibility bitmap is set
\* and absent otherwise.
C17_ConditionalPrefixFields ==
    prefix.built =>
        \A i \in FieldIds :
            (i < prefix.layout.first_suffix_field /\ prefix.got[i].called) =>
                IF Bit(prefix.layout.conditional_prefix_fields, i)
                        /\ ~Bit(prefix.layout.accessible_fields, i)
                THEN prefix.got[i] = Absent
                ELSE prefix.got[i] = Present(StoredValue(prefix.layout.fields, i))

\* a conditional prefix field whose bit is clear came back absent, a prefix
\* field that is not conditional came back with its value
C17_Witness ==
    /\ prefix.built
    /\ \E i \in FieldIds, j \in FieldIds :
          /\ i < prefix.layout.first_suffix_field
          /\ j < prefix.layout.first_suffix_field
          /\ Bit(prefix.layout.conditional_prefix_fields, i)
          /\ ~Bit(prefix.layout.accessible_fields, i)
          /\ prefix.got[i] = Absent
          /\ ~Bit(prefix.layout.conditional_prefix_fields, j)
          /\ prefix.got[j].present

(***************************************************************************)
(* Comparing the layouts of enums                                          *)
(***************************************************************************)
\* the indices, below the length of the shorter list, at which two lists differ
DifferingAt(t, o) == {i \in 1..Min(Len(t), Len(o)) : t[i] # o[i]}

\* the j-th smallest element of the set of numbers D
NthOf(D, j) == CHOOSE i \in D : Cardinality({k \in D : k < i}) = j - 1

\* the findings of one kind in a report
FindingsOf(errs, kind) == {j \in 1..Len(errs) : errs[j].kind = kind}

\* C18: the checker never stops at the first mismatch: its report has one
\* finding per variant whose field count differs and, besides them, every
\* finding of the comparison of the discriminants; so two enums that differ
\* in a field count and in one discriminant value get a finding of each of
\* the two categories.
C18_ReportCoversEveryCategory ==
    abi_check.called = "check_enum" =>
        LET t == abi_check.this
            o == abi_check.other
            errs == abi_check.result.errs
            F == DifferingAt(t.field_count, o.field_count)
            D == DifferingAt(t.discriminants.discriminants, o.discriminants.discriminants)
        IN  /\ Cardinality(FindingsOf(errs, "FieldCountMismatch")) = Cardinality(F)
            /\ t.discriminants.repr = o.discriminants.repr
                    => Cardinality(FindingsOf(errs, "EnumDiscriminant")) = Cardinality(D)
            /\ (F # {} /\ t.discriminants.repr = o.discriminants.repr /\ Cardinality(D) = 1)
                    => /\ FindingsOf(errs, "FieldCountMismatch") # {}
                       /\ FindingsOf(errs, "EnumDiscriminant") # {}
                       /\ ~abi_check.result.ok

\* C18 witness: two enums that differ in a field count and in exactly one
\* discriminant value have been checked
C18_Witness ==
    /\ abi_check.called = "check_enum"
    /\ DifferingAt(abi_check.this.field_count, abi_check.other.field_count) # {}
    /\ Cardinality(DifferingAt(abi_check.this.discriminants.discriminants,
                               abi_check.other.discriminants.discriminants)) = 1
    /\ Len(abi_check.result.errs) >= 2

\* C19: compare on two lists of the same integer type returns, in the order
\* of the lists, exactly one EnumDiscriminant finding with the two values for
\* every index below the shorter length at which they differ and no other
\* finding; compare returns Ok exactly when it produced no finding; and
\* [0,1] against [0,1,2] produces none.
C19_OneFindingPerDifferingIndex ==
    abi_check.called = "compare" =>
        LET t == abi_check.this.discriminants
            o == abi_check.other.discriminants
            errs == abi_check.result.errs
            D == DifferingAt(t.discriminants, o.discriminants)
        IN  /\ abi_check.result.ok <=> errs = <<>>
            /\ t.repr = o.repr =>
                    /\ Len(errs) = Cardinality(D)
                    /\ \A j \in 1..Len(errs) :
                            /\ errs[j].kind = "EnumDiscriminant"
                            /\ errs[j].expected.bits = Bits64(t.discriminants[NthOf(D, j)])
                            /\ errs[j].found.bits = Bits64(o.discriminants[NthOf(D, j)])
            /\ (t.repr = o.repr /\ t.discriminants = <<0, 1>> /\ o.discriminants = <<0, 1, 2>>)
                    => errs = <<>> /\ abi_check.result.ok

\* C19 witness: two lists of the same integer type and of different lengths
\* that differ at two indices have been compared
C19_Witness ==
    /\ abi_check.called = "compare"
    /\ abi_check.this.discriminants.repr = abi_check.other.discriminants.repr
    /\ Len(abi_check.this.discriminants.discriminants)
            # Len(abi_check.other.discriminants.discriminants)
    /\ Cardinality(DifferingAt(abi_check.this.discriminants.discriminants,
                               abi_check.other.discriminants.discriminants)) >= 2
    /\ ~abi_check.result.ok

\* C20: compare on two tables of different integer types returns Err with a
\* ReprAttr finding whose expected side is this table's integer type and
\* whose found side is the other table's, whatever the values are.
C20_ReprMismatchIsReported ==
    (/\ abi_check.called = "compare"
     /\ abi_check.this.discriminants.repr # abi_check.other.discriminants.repr)
        => /\ ~abi_check.result.ok
           /\ \E j \in 1..Len(abi_check.result.errs) :
                LET e == abi_check.result.errs[j]
                IN  /\ e.kind = "ReprAttr"
                    /\ e.expected = [variant |-> "Int",
                                      repr |-> abi_check.this.discriminants.repr]
                    /\ e.found = [variant |-> "Int",
                                   repr |-> abi_check.other.discriminants.repr]

\* C20 witness: a u8 table and an i8 table with the same values have been
\* compared
C20_Witness ==
    /\ abi_check.called = "compare"
    /\ abi_check.this.discriminants.repr = "U8"
    /\ abi_check.other.discriminants.repr = "I8"
    /\ abi_check.this.discriminants.discriminants = <<0, 1>>
    /\ abi_check.other.discriminants.discriminants = <<0, 1>>
    /\ abi_check.result.errs # <<>>

\* the integer types without a sign
UnsignedReprs == {"U8", "U16", "U32", "U64"}

\* the TLDiscriminant d holds the number x of the integer type repr, in the
\* variant documented for that type: Unsigned(u64) for u8..u64, Signed(i64)
\* for i8..i64
HoldsFaithfully(d, repr, x) ==
    IF repr \in UnsignedReprs
    THEN d.variant = "Unsigned" /\ x >= 0 /\ d.bits = <<0, 0, 0, x>>
    ELSE d.variant = "Signed" /\ d.bits = Bits64(x)

\* C21 (as claimed): every EnumDiscriminant finding of compare holds the two
\* conflicting values unchanged, as TLDiscriminant::Unsigned for an unsigned
\* integer type and as TLDiscriminant::Signed for a signed one.
C21_FindingHoldsBothValuesFaithfully ==
    (/\ abi_check.called = "compare"
     /\ abi_check.this.discriminants.repr = abi_check.other.discriminants.repr)
        => LET t == abi_check.this.discriminants
               o == abi_check.other.discriminants
               errs == abi_check.result.errs
               D == DifferingAt(t.discriminants, o.discriminants)
           IN  \A j \in 1..Len(errs) :
                    /\ HoldsFaithfully(errs[j].expected, t.repr, t.discriminants[NthOf(D, j)])
                    /\ HoldsFaithfully(errs[j].found, o.repr, o.discriminants[NthOf(D, j)])

(***************************************************************************)
(* The storage of nonexhaustive enums                                      *)
(***************************************************************************)
\* C22: check_compatible returns Err exactly when the storage is smaller than
\* the enum's original size or less aligned than its original alignment,
\* however many variants either side knows, and the error holds the enum's
\* size and alignment and the storage's size and alignment as they are.
C22_StorageAtLeastAsLargeAndAligned ==
    storage_check.called =>
        LET t == storage_check.nonexhaustive
            s == storage_check.layout
            r == storage_check.result
        IN  /\ ~r.ok <=> (\/ s.size < t.original_size
                          \/ s.alignment < Pow2(t.original_alignment_pow2))
            /\ ~r.ok => /\ r.err.type_size = t.original_size
                        /\ r.err.type_alignment = Pow2(t.original_alignment_pow2)
                        /\ r.err.storage_size = s.size
                        /\ r.err.storage_alignment = s.alignment

\* C22 witness: a storage as large as the enum but less aligned, declared
\* where fewer variants are known, has been rejected
C22_Witness ==
    /\ storage_check.called
    /\ storage_check.layout.size >= storage_check.nonexhaustive.original_size
    /\ storage_check.layout.alignment
            < Pow2(storage_check.nonexhaustive.original_alignment_pow2)
    /\ storage_check.storage_variants < storage_check.enum_variants
    /\ ~storage_check.result.ok
    /\ storage_check.result.err.storage_alignment = storage_check.layout.alignment

\* C23 (as claimed): for two enums with different variant counts max_min
\* returns the one with more variants first and the one with fewer second.
C23_MaxMinIsMaximumThenMinimum ==
    (/\ abi_check.called = "max_min"
     /\ Len(abi_check.this.field_count) # Len(abi_check.other.field_count))
        => /\ Len(abi_check.pair[1].field_count) > Len(abi_check.pair[2].field_count)
           /\ {abi_check.pair[1], abi_check.pair[2]} = {abi_check.this, abi_check.other}

(***************************************************************************)
(* Equality of layouts                                                     *)
(***************************************************************************)
\* the contents of the static a layout was made of
ContentsOf(l) == tl_eq.statics[l.ptr]

\* the names of the fields of the static a TLFields was made of
FieldNamesOf(l) == [i \in 1..Len(ContentsOf(l).elems) |-> ContentsOf(l).names[ContentsOf(l).elems[i]]]

\* C24: two TLDiscriminants are equal exactly when they have the same integer
\* type, the same length and the same discriminants, and two TLFields
\* exactly when they have the same length and their fields are equal, one
\* by one, whether they are at the same address or not.
C24_LayoutsCompareStructurally ==
    /\ tl_eq.called = "TLDiscriminants" =>
            (tl_eq.result <=>
                /\ ContentsOf(tl_eq.this).repr = ContentsOf(tl_eq.other).repr
                /\ Len(ContentsOf(tl_eq.this).elems) = Len(ContentsOf(tl_eq.other).elems)
                /\ \A i \in 1..Len(ContentsOf(tl_eq.this).elems) :
                        ContentsOf(tl_eq.this).elems[i] = ContentsOf(tl_eq.other).elems[i])
    /\ tl_eq.called = "TLFields" =>
            (tl_eq.result <=>
                /\ Len(FieldNamesOf(tl_eq.this)) = Len(FieldNamesOf(tl_eq.other))
                /\ \A i \in 1..Len(FieldNamesOf(tl_eq.this)) :
                        FieldNamesOf(tl_eq.this)[i] = FieldNamesOf(tl_eq.other)[i])

\* C24 witness: two tables of two discriminants of the same type and values,
\* one in each module, have been found equal
C24_Witness ==
    /\ tl_eq.called = "TLDiscriminants"
    /\ tl_eq.this.ptr # tl_eq.other.ptr
    /\ tl_eq.this.len = 2
    /\ tl_eq.statics[1] = tl_eq.statics[2]
    /\ tl_eq.result

LastSameType ==
    \/ PTR_MASK(handles[last.h].vtable) = PTR_MASK(handles[last.other].vtable)
    \/ is_compatible(type_info(PTR_MASK(handles[last.h].vtable)),
                     type_info(PTR_MASK(handles[last.other].vtable)))

\* the ordering of the addresses of the tables of the two handles
LastAddressOrdering ==
    IF PTR_MASK(handles[last.h].vtable) < PTR_MASK(handles[last.other].vtable) THEN -1
    ELSE IF PTR_MASK(handles[last.h].vtable) = PTR_MASK(handles[last.other].vtable) THEN 0
    ELSE 1

\* C26: for two handles that are not of the same type eq is false and cmp and
\* partial_cmp are (Some of) the ordering of the addresses of the two tables,
\* with no slot of a table called; so eq is true and cmp is Equal only for
\* handles of the same type.
C26_DifferentTypesCompareByTableAddress ==
    /\ (last.op \in {"eq", "cmp", "partial_cmp"} /\ ~LastSameType) =>
            /\ last.slot = ""
            /\ last.op = "eq" => ~last.ok
            /\ last.op \in {"cmp", "partial_cmp"} =>
                    last.ok /\ last.out = LastAddressOrdering /\ last.out # 0
    /\ (last.op = "eq" /\ last.ok) => LastSameType
    /\ (last.op = "cmp" /\ last.out = 0) => LastSameType

\* C26 witness: a handle of a T and a handle of a U have been compared with cmp
C26_Witness ==
    /\ last.op = "cmp"
    /\ payloads[handles[last.h].object].ty = "T"
    /\ payloads[handles[last.other].object].ty = "U"
    /\ ~LastSameType
    /\ last.out # 0

(***************************************************************************)
(* Failed unerasing calls                                                  *)
(***************************************************************************)
\* 1 if the reborrow flag of a handle is clear, 0 if it is set
SlotRunsOf(self) == IF (AndPtrFlags(self.vtable) % 2) = PTR_FLAG_IS_BORROWED THEN 0 ELSE 1

\* C27: a failed into_unerased/into_any_unerased returns nothing but the
\* error and drops the handle: the destructor slot runs once on the payload
\* if the reborrow flag is clear and not at all if it is set, and nothing
\* else changes; a failed as_*unerased(_mut) changes nothing and the handle
\* stays alive.
C27_FailedIntoDropsFailedAsKeeps ==
    [][(last.op = "none" /\ last'.op \in UneraseOps /\ ~last'.ok) =>
            LET h == last'.h
                o == handles[h].object
            IN  IF last'.op \in IntoOps
                THEN /\ last'.out = 0
                     /\ typed' = typed
                     /\ handles'[h].state = "dropped"
                     /\ handles'[h].drop_calls = handles[h].drop_calls + SlotRunsOf(handles[h])
                     /\ \A g \in HandleIds \ {h} : handles'[g] = handles[g]
                     /\ payloads'[o].slot_runs = payloads[o].slot_runs + SlotRunsOf(handles[h])
                     /\ \A q \in PayloadIds \ {o} : payloads'[q] = payloads[q]
                ELSE /\ handles' = handles
                     /\ payloads' = payloads
                     /\ typed' = typed
                     /\ handles'[h].state = "live"]_vars

\* C27 witness: into_unerased failed on an owning handle, whose payload the
\* slot has destroyed
C27_Witness ==
    /\ last.op \in IntoOps
    /\ ~last.ok
    /\ ~IsBorrowedSet(last.h)
    /\ handles[last.h].state = "dropped"
    /\ handles[last.h].drop_calls = 1
    /\ payloads[handles[last.h].object].slot_runs = 1

(***************************************************************************)
(* Clones and defaults                                                     *)
(***************************************************************************)
\* C28: the handle clone or default returns has the table pointer of the
\* receiver, flag bits included; a handle with the reborrow flag set, a clone
\* of a reborrow among them, never calls the destructor slot; the clone or
\* default of an owning handle has a payload of its own, and the payload of an
\* owning handle that was dropped has been destroyed exactly once; an owning
\* handle never has the reborrow flag set.
C28_CloneKeepsTablePointerAndFlags ==
    /\ last.op \in {"clone", "default"} =>
            /\ handles[last.out].vtable = handles[last.h].vtable
            /\ IsBorrowedSet(last.out) <=> IsBorrowedSet(last.h)
            /\ P_Owning(handles[last.h].P) =>
                    /\ handles[last.out].object # handles[last.h].object
                    /\ \A g \in HandleIds \ {last.out} :
                            handles[g].object # handles[last.out].object
    /\ \A h \in HandleIds :
            /\ IsBorrowedSet(h) => handles[h].drop_calls = 0
            /\ P_Owning(handles[h].P) => ~IsBorrowedSet(h)
            /\ (P_Owning(handles[h].P) /\ handles[h].state = "dropped")
                    => payloads[handles[h].object].destroyed = 1

\* C28 witness: a reborrow was cloned and the clone dropped, and the payload
\* is as it was
C28_Witness ==
    \E c \in HandleIds, r \in HandleIds :
        /\ c > r
        /\ handles[r].src # 0
        /\ handles[c].src = handles[r].src
        /\ IsBorrowedSet(r) /\ IsBorrowedSet(c)
        /\ handles[c].state = "dropped"
        /\ payloads[handles[c].object].slot_runs = 0
        /\ payloads[handles[c].object].destroyed = 0

(***************************************************************************)
(* The flag bits of the table pointer                                      *)
(***************************************************************************)
\* the table a constructor called for the payload of a handle puts into it
BuiltWith(self) ==
    get_vtable(payloads[self.object].module, payloads[self.object].ty, self.made_by,
               self.P, self.I)

\* C29: vtable_address() of a handle that is not a reborrow (built by a
\* constructor, or the clone or default of such a handle) is the address of
\* the table it was built with and its flags are 0; vtable_address() of a
\* reborrow, or a clone of one, is that of its source and its flags are
\* exactly PTR_FLAG_IS_BORROWED; vtable() is the table at vtable_address();
\* and the unerasing calls and is_same_type answer for a reborrow what they
\* answer for its source.
C29_FlagBitsNeverCorruptTheTablePointer ==
    \A h \in HandleIds :
        LET self == handles[h]
        IN  /\ vtable(self) # WildTable
            /\ VTableAddr(vtable(self)) = vtable_address(self)
            /\ self.src = 0 =>
                    /\ vtable_address(self) = BuiltWith(self)
                    /\ vtable_ptr_flags(self) = 0
            /\ self.src # 0 =>
                    /\ vtable_address(self) = vtable_address(handles[self.src])
                    /\ vtable(self) = vtable(handles[self.src])
                    /\ vtable_ptr_flags(self) = PTR_FLAG_IS_BORROWED
                    /\ \A m \in Modules, t \in Types, kind \in {"impl", "any"} :
                            check_same_destructor_opaque(self,
                                    get_vtable(m, t, kind, self.P, self.I)).ok
                            = check_same_destructor_opaque(handles[self.src],
                                    get_vtable(m, t, kind, handles[self.src].P, self.I)).ok
                    /\ \A o \in HandleIds :
                            SameType(self, handles[o]) = SameType(handles[self.src], handles[o])

\* C29 witness: a reborrow of a handle built by from_value or from_ptr has
\* been unerased
C29_Witness ==
    /\ last.op \in {"as_unerased", "as_any_unerased"}
    /\ last.ok
    /\ handles[last.h].src # 0
    /\ AndPtrFlags(handles[last.h].vtable) = PTR_FLAG_IS_BORROWED
    /\ AndPtrFlags(handles[handles[last.h].src].vtable) = 0

(***************************************************************************)
(* GetVariantNames, the iterator over the names of the variants of an enum *)
(***************************************************************************)
\* the characters of the strings of names
NameChars == {"a", "_", ";"}

\* the strings of names
NamesStrings == UNION {[1..n -> NameChars] : n \in 0..MaxNamesLen}

VARIANT_INDEX_LEN == 68

\* the numbers of variants: a few, as many as VARIANT_INDEX has names for,
\* and one more
VariantCounts == (0..MaxVariants) \cup {VARIANT_INDEX_LEN, VARIANT_INDEX_LEN + 1}

\* a name taken from the string of names
Name(text) == [fallback |-> FALSE, text |-> text, index |-> 0]

\* the name "Variant<i>"
VariantN(i) == [fallback |-> TRUE, text |-> <<>>, index |-> i]

VARIANT_INDEX == [i \in 0..(VARIANT_INDEX_LEN - 1) |-> VariantN(i)]

\* str::split(';')
str_split(str) == [rest |-> str, finished |-> FALSE]

\* Split::next: the text before the next ';', or all that is left, once
split_next(sp) ==
    IF sp.finished
    THEN [some |-> FALSE, text |-> <<>>, split |-> sp]
    ELSE LET at == {i \in 1..Len(sp.rest) : sp.rest[i] = ";"}
         IN  IF at = {}
             THEN [some |-> TRUE, text |-> sp.rest,
                   split |-> [rest |-> <<>>, finished |-> TRUE]]
             ELSE LET i == CHOOSE i \in at : \A j \in at : i <= j
                  IN  [some |-> TRUE, text |-> SubSeq(sp.rest, 1, i - 1),
                       split |-> [rest |-> SubSeq(sp.rest, i + 1, Len(sp.rest)),
                                  finished |-> FALSE]]

\* TLEnum::variant_names_iter of an enum with these names and this many variants
variant_names_iter(names, count) ==
    /\ ~names_iter.built
    /\ names_iter' = [NoNamesIter EXCEPT !.built = TRUE,
                                         !.names = names,
                                         !.split = str_split(names),
                                         !.length = count,
                                         !.current = 0]
    /\ UNCHANGED <<first_vars, storage_check, tl_eq, rcow>>

\* GetVariantNames::next
next ==
    /\ names_iter.built
    /\ ~names_iter.panicked
    /\ IF names_iter.length = names_iter.current
       THEN names_iter' = [names_iter EXCEPT !.last = "None"]
       ELSE LET current == names_iter.current
                x == split_next(names_iter.split)
                advanced == [names_iter EXCEPT !.current = current + 1,
                                               !.split = x.split]
            IN  IF x.some /\ (x.text # <<>> \/ x.text = <<"_">>)
                THEN names_iter' = [advanced EXCEPT !.yielded = Append(@, Name(x.text)),
                                                    !.last = "Some"]
                ELSE IF current \in DOMAIN VARIANT_INDEX
                THEN names_iter' = [advanced EXCEPT !.yielded = Append(@, VARIANT_INDEX[current]),
                                                    !.last = "Some"]
                ELSE names_iter' = [advanced EXCEPT !.last = "panic",
                                                    !.panicked = TRUE]
    /\ UNCHANGED <<first_vars, storage_check, tl_eq, rcow>>

\* GetVariantNames::size_hint
size_hint(self) ==
    LET len == self.length - self.current
    IN  <<len, len>>

\* GetVariantNames::count
count(self) ==
    LET len == self.length - self.current
    IN  len

\* the iterator over the names of an enum
NextNames ==
    \/ \E names \in NamesStrings, n \in VariantCounts : variant_names_iter(names, n)
    \/ next

SpecNames == Init /\ [][NextNames]_vars

\* the segments of a string of names, between its ';'
RECURSIVE SegmentsOf(_)
SegmentsOf(str) ==
    IF \A i \in 1..Len(str) : str[i] # ";"
    THEN <<str>>
    ELSE LET i == CHOOSE i \in 1..Len(str) :
                      str[i] = ";" /\ \A j \in 1..(i - 1) : str[j] # ";"
         IN  <<SubSeq(str, 1, i - 1)>> \o SegmentsOf(SubSeq(str, i + 1, Len(str)))

\* the i-th name (from 0) of an enum with this string of names
ExpectedName(names, i) ==
    LET segments == SegmentsOf(names)
    IN  IF i + 1 <= Len(segments) /\ segments[i + 1] # <<>>
        THEN Name(segments[i + 1])
        ELSE VariantN(i)

\* C30: the iterator never panics; what it has yielded are the first names of
\* the enum, the i-th being the i-th segment of the string of names when that
\* is not empty and "Variant<i>" otherwise; it has yielded no more than
\* variant_count() names; size_hint() and count() are the number of names
\* still to be yielded; and next returns None only when all variant_count()
\* names have been yielded, and then on every call.
C30_YieldsTheNamesOfAllVariants ==
    names_iter.built =>
        /\ ~names_iter.panicked
        /\ Len(names_iter.yielded) <= names_iter.length
        /\ \A i \in 1..Len(names_iter.yielded) :
                names_iter.yielded[i] = ExpectedName(names_iter.names, i - 1)
        /\ count(names_iter) = names_iter.length - Len(names_iter.yielded)
        /\ size_hint(names_iter) = <<names_iter.length - Len(names_iter.yielded),
                                     names_iter.length - Len(names_iter.yielded)>>
        /\ names_iter.last = "None" => Len(names_iter.yielded) = names_iter.length
        /\ Len(names_iter.yielded) = names_iter.length /\ names_iter.last # ""
                => names_iter.last \in {"Some", "None"}

=============================================================================
